---- MODULE Spec2Model ----
(***************************************************************************)
(* Model of VideoCore::CustomTexManager                                    *)
(* (src/video_core/custom_textures/custom_tex_manager.cpp): the material   *)
(* cache, the asynchronous decode / upload pipeline (Decode, TickFrame),   *)
(* the preload pass (PreloadTextures) and the worker pool they share; the   *)
(* pack on disk: its descriptor (ReadConfig, WriteConfig), the file names  *)
(* of its textures (ParseFilename) and the texture dump (DumpTexture).     *)
(*                                                                         *)
(* Threads: one caller thread (the thread that calls FindCustomTextures,   *)
(* Decode, TickFrame and PreloadTextures), the pool's worker threads, and  *)
(* the owner of the stop_run flag, who may set it while a preload runs.    *)
(* Memory is counted in MiB.                                               *)
(***************************************************************************)
EXTENDS Integers, Sequences, FiniteSets, TLC

\* ---------------------------------------------------------------- bounds
NumMaterials == 2
MaxDecodes == 2
MaxTickQueue == 18
MaxTickMid == 2
hardware_concurrency == 3
MaxDumps == 3

\* ------------------------------------------------------ program constants
MAX_UPLOADS_PER_TICK == 16

recommended_min_mem == 2 * 1024

\* Keys of material_map.  The preload loop visits them in increasing order:
\* the map is unordered, and the files behind each key are arbitrary, so one
\* fixed order stands for any.
Materials == 1..NumMaterials

\* What decoding the files of one material yields: success with the decoded
\* byte count, or a decode failure.
DiskFiles ==
    { [ok |-> TRUE, size |-> 1024], [ok |-> TRUE, size |-> 2048],
      [ok |-> FALSE, size |-> 0] }

\* Values of total_physical_memory the preload pass is tried with.
SysMems == {0, 2048, 4096}

VARIABLES
    textures_loaded,      \* bool textures_loaded
    workers,              \* TRUE once the worker pool exists
    async_custom_loading, \* bool async_custom_loading
    disk,                 \* the pack's files, by material: environment
    material_map,         \* hash -> Material [state, size]
    async_uploads,        \* list of AsyncUpload {material, func}
    requests,             \* the worker pool's queue of jobs not yet started
    running,              \* decode jobs a worker is executing (materials)
    preload,              \* the preload job: its captured locals and position
    stop_run,             \* the cancellation flag of the PreloadTextures call
    pc,                   \* the caller thread: "idle" or "WaitForRequests"
    funcs,                \* history: one record per upload closure given to Decode
    jobs_queued,          \* history: decode jobs ever enqueued, by material
    last,                 \* history: the step taken last: what it returned,
                          \* what upload() returned in it, the closures it ran
    skip_mipmap,          \* bool skip_mipmap
    flip_png_files,       \* bool flip_png_files
    use_new_hash,         \* bool use_new_hash
    refuse_dds,           \* bool refuse_dds
    path_to_hash_map,     \* file name -> hash, from the descriptor
    custom_textures,      \* list of CustomTexture
    dumped_textures,      \* set of the hashes dumped in this session
    load_dir,             \* the pack's directory: environment
    dump_dir,             \* the dump directory: its pack.json, its files
    encoding,             \* encode jobs a worker is executing (paths)
    dump_queued,          \* history: the encode jobs ever enqueued
    map_textures,         \* hash -> map type -> the textures of the Material
    dump_call             \* the data_hash of a DumpTexture call that has
                          \* queued its job and not yet inserted the hash

pipevars ==
    << textures_loaded, workers, async_custom_loading, disk, material_map,
       async_uploads, requests, running, preload, stop_run, pc, funcs,
       jobs_queued >>

packvars ==
    << skip_mipmap, flip_png_files, use_new_hash, refuse_dds,
       path_to_hash_map, custom_textures, dumped_textures, load_dir,
       dump_dir, encoding, dump_queued, map_textures, dump_call >>

vars == << pipevars, last, packvars >>

\* ------------------------------------------------------------- Material
NewMaterial == [state |-> "Unloaded", size |-> 0]

IsUnloaded(mat) == mat.state = "Unloaded"

IsDecoded(mat) == mat.state = "Decoded"

\* The writes of one load: Decoded with the decoded byte count, or Failed.
Loaded(mat, file) ==
    IF file.ok THEN [state |-> "Decoded", size |-> file.size]
    ELSE [state |-> "Failed", size |-> mat.size]

\* Material::LoadFromDisk as one step (a load no other thread overlaps).
LoadFromDisk(mat, file) == IF IsDecoded(mat) THEN mat ELSE Loaded(mat, file)

\* ---------------------------------------------------------------- strings
\* A string is a sequence of one-character strings.
UpperDigits ==
    << "0", "1", "2", "3", "4", "5", "6", "7", "8", "9",
       "A", "B", "C", "D", "E", "F" >>

LowerDigits ==
    << "0", "1", "2", "3", "4", "5", "6", "7", "8", "9",
       "a", "b", "c", "d", "e", "f" >>

\* The value of c as a digit of any base up to 16; 16 if c is no digit.
DigitValue(c) ==
    IF \E i \in 1..16 : UpperDigits[i] = c
    THEN (CHOOSE i \in 1..16 : UpperDigits[i] = c) - 1
    ELSE IF \E i \in 1..16 : LowerDigits[i] = c
    THEN (CHOOSE i \in 1..16 : LowerDigits[i] = c) - 1
    ELSE 16

\* fmt's {} of an unsigned integer.
RECURSIVE FormatDec(_)
FormatDec(n) ==
    IF n < 10 THEN << UpperDigits[n + 1] >>
    ELSE FormatDec(n \div 10) \o << UpperDigits[(n % 10) + 1] >>

\* fmt's {:0wX}: upper-case hexadecimal, zero-padded to w digits.
RECURSIVE FormatHex(_, _)
FormatHex(n, w) ==
    IF n < 16 /\ w <= 1 THEN << UpperDigits[n + 1] >>
    ELSE FormatHex(n \div 16, w - 1) \o << UpperDigits[(n % 16) + 1] >>

Last(s) == s[Len(s)]

PopBack(s) == SubSeq(s, 1, Len(s) - 1)

\* Common::SplitString(str, delim): the pieces between delimiters, read as
\* by std::getline: no piece follows a final delimiter.
RECURSIVE SplitFrom(_, _, _, _)
SplitFrom(str, delim, i, piece) ==
    IF i > Len(str) THEN (IF piece = << >> THEN << >> ELSE << piece >>)
    ELSE IF str[i] = delim
    THEN << piece >> \o SplitFrom(str, delim, i + 1, << >>)
    ELSE SplitFrom(str, delim, i + 1, Append(piece, str[i]))

SplitString(str, delim) == SplitFrom(str, delim, 1, << >>)

\* FileUtil::GetFilename(path): what follows the last path separator.
RECURSIVE GetFilename(_)
GetFilename(path) ==
    IF path = << >> \/ Last(path) = "/" THEN << >>
    ELSE Append(GetFilename(PopBack(path)), Last(path))

\* The digits of one scanf / stoull integer conversion from position i on:
\* the position after the last digit and the value read so far.
RECURSIVE ScanDigits(_, _, _, _)
ScanDigits(s, i, base, value) ==
    IF i <= Len(s) /\ DigitValue(s[i]) < base
    THEN ScanDigits(s, i + 1, base, value * base + DigitValue(s[i]))
    ELSE [next |-> i, value |-> value]

\* One integer conversion at position i: %u (base 10), %llX and
\* stoull(_, _, 16) (base 16, where a 0x before a digit is skipped).  The
\* file names and keys tried hold no blank and no sign character, and no
\* number beyond 2^31.
ScanInteger(s, i, base) ==
    LET start == IF i > 0 THEN i ELSE Len(s) + 1
        prefixed == /\ base = 16
                    /\ start + 2 <= Len(s)
                    /\ s[start] = "0"
                    /\ s[start + 1] \in {"x", "X"}
                    /\ DigitValue(s[start + 2]) < 16
        from == IF prefixed THEN start + 2 ELSE start
        d == ScanDigits(s, from, base, 0)
    IN  [ok |-> d.next > from, next |-> d.next, value |-> d.value]

\* A literal of a scanf format at position i: the position after it, or 0.
ScanLiteral(s, i, lit) ==
    IF i > 0 /\ i + Len(lit) - 1 <= Len(s)
           /\ SubSeq(s, i, i + Len(lit) - 1) = lit
    THEN i + Len(lit) ELSE 0

\* ScanTex1 with %llu for %llX: the hash read as a decimal number.
ScanTex1DecimalHash(s) ==
    LET width == ScanInteger(s, ScanLiteral(s, 1, << "t", "e", "x", "1", "_" >>),
                             10)
        height == ScanInteger(s, IF width.ok
                                 THEN ScanLiteral(s, width.next, << "x" >>)
                                 ELSE 0, 10)
        hash == ScanInteger(s, IF height.ok
                               THEN ScanLiteral(s, height.next, << "_" >>)
                               ELSE 0, 10)
        format == ScanInteger(s, IF hash.ok
                                 THEN ScanLiteral(s, hash.next, << "_" >>)
                                 ELSE 0, 10)
    IN  [count |-> IF ~width.ok THEN 0
                   ELSE IF ~height.ok THEN 1
                   ELSE IF ~hash.ok THEN 2
                   ELSE IF ~format.ok THEN 3 ELSE 4,
         width |-> width.value, height |-> height.value,
         hash |-> hash.value, format |-> format.value]

\* sscanf(s, "tex1_%ux%u_%llX_%u", &width, &height, &hash, &format): the
\* number of conversions assigned and their values.  Whatever follows the
\* last conversion is not looked at.
ScanTex1(s) ==
    LET width == ScanInteger(s, ScanLiteral(s, 1, << "t", "e", "x", "1", "_" >>),
                             10)
        height == ScanInteger(s, IF width.ok
                                 THEN ScanLiteral(s, width.next, << "x" >>)
                                 ELSE 0, 10)
        hash == ScanInteger(s, IF height.ok
                               THEN ScanLiteral(s, height.next, << "_" >>)
                               ELSE 0, 16)
        format == ScanInteger(s, IF hash.ok
                                 THEN ScanLiteral(s, hash.next, << "_" >>)
                                 ELSE 0, 10)
    IN  [count |-> IF ~width.ok THEN 0
                   ELSE IF ~height.ok THEN 1
                   ELSE IF ~hash.ok THEN 2
                   ELSE IF ~format.ok THEN 3 ELSE 4,
         width |-> width.value, height |-> height.value,
         hash |-> hash.value, format |-> format.value]

\* ------------------------------------------------------------ file names
png == << "p", "n", "g" >>

dds == << "d", "d", "s" >>

ktx == << "k", "t", "x" >>

norm == << "n", "o", "r", "m" >>

MakeFileFormat(ext) ==
    IF ext = png THEN "PNG"
    ELSE IF ext = dds THEN "DDS"
    ELSE IF ext = ktx THEN "KTX"
    ELSE "None"

\* MakeMapType that takes every segment as Normal.
MakeMapTypeAnySegment(ext) == IF ext # << >> THEN "Normal" ELSE "Color"

\* Any segment other than "norm" is logged and taken as Color.
MakeMapType(ext) == IF ext = norm THEN "Normal" ELSE "Color"

\* A CustomTexture as constructed, before ParseFilename writes to it.
NewTexture ==
    [path |-> << >>, file_format |-> "None", type |-> "Color", hash |-> 0]

\* What ParseFilename returns and the texture it leaves.
Parsed(ok, texture) == [ok |-> ok, texture |-> texture]

\* ParseFilename that looks for an override entry first, before the tests
\* of the segments, the extension and refuse_dds.
ParseFilenameOverrideFirst(virtualName, refuse, overrides) ==
    LET parts == SplitString(virtualName, ".")
        file_format == MakeFileFormat(Last(parts))
        rest == PopBack(parts)
        type == IF Len(rest) > 1 THEN MakeMapType(Last(rest)) ELSE "Color"
        base == IF Len(rest) > 1 THEN PopBack(rest) ELSE rest
        typed == [NewTexture EXCEPT !.file_format = file_format,
                                    !.type = type]
        accepted(hash) ==
            Parsed(TRUE, [typed EXCEPT !.hash = hash, !.path = virtualName])
    IN  IF virtualName \in DOMAIN overrides
        THEN {accepted(overrides[virtualName])}
        ELSE IF Len(parts) > 3 THEN {Parsed(FALSE, NewTexture)}
        ELSE IF file_format = "None" THEN {Parsed(FALSE, NewTexture)}
        ELSE IF file_format = "DDS" /\ refuse
        THEN {Parsed(FALSE, NewTexture)}
        ELSE IF base = << >>
        THEN {Parsed(FALSE, typed)} \cup { accepted(h) : h \in Materials }
        ELSE IF ScanTex1(Last(base)).count # 4 THEN {Parsed(FALSE, typed)}
        ELSE {accepted(ScanTex1(Last(base)).hash)}

\* ParseFilename that looks for an override entry only when the base name
\* does not match the pattern.
ParseFilenamePatternFirst(virtualName, refuse, overrides) ==
    LET parts == SplitString(virtualName, ".")
        file_format == MakeFileFormat(Last(parts))
        rest == PopBack(parts)
        type == IF Len(rest) > 1 THEN MakeMapType(Last(rest)) ELSE "Color"
        base == IF Len(rest) > 1 THEN PopBack(rest) ELSE rest
        typed == [NewTexture EXCEPT !.file_format = file_format,
                                    !.type = type]
        accepted(hash) ==
            Parsed(TRUE, [typed EXCEPT !.hash = hash, !.path = virtualName])
    IN  IF Len(parts) > 3 THEN {Parsed(FALSE, NewTexture)}
        ELSE IF file_format = "None" THEN {Parsed(FALSE, NewTexture)}
        ELSE IF file_format = "DDS" /\ refuse
        THEN {Parsed(FALSE, NewTexture)}
        ELSE IF base # << >> /\ ScanTex1(Last(base)).count = 4
        THEN {accepted(ScanTex1(Last(base)).hash)}
        ELSE IF virtualName \in DOMAIN overrides
        THEN {accepted(overrides[virtualName])}
        ELSE {Parsed(FALSE, typed)}

\* ParseFilename on the file named virtualName, as the set of its possible
\* outcomes.  When the name is an extension and nothing else and has no
\* override entry, parts is empty after pop_back and parts.back() is
\* undefined: the call may reject the file or accept it under any hash.
ParseFilename(virtualName, refuse, overrides) ==
    LET parts == SplitString(virtualName, ".")
        file_format == MakeFileFormat(Last(parts))
        rest == PopBack(parts)
        type == IF Len(rest) > 1 THEN MakeMapType(Last(rest)) ELSE "Color"
        base == IF Len(rest) > 1 THEN PopBack(rest) ELSE rest
        typed == [NewTexture EXCEPT !.file_format = file_format,
                                    !.type = type]
        accepted(hash) ==
            Parsed(TRUE, [typed EXCEPT !.hash = hash, !.path = virtualName])
    IN  IF Len(parts) > 3 THEN {Parsed(FALSE, NewTexture)}
        ELSE IF file_format = "None" THEN {Parsed(FALSE, NewTexture)}
        ELSE IF file_format = "DDS" /\ refuse
        THEN {Parsed(FALSE, NewTexture)}
        ELSE IF virtualName \in DOMAIN overrides
        THEN {accepted(overrides[virtualName])}
        ELSE IF base = << >>
        THEN {Parsed(FALSE, typed)} \cup { accepted(h) : h \in Materials }
        ELSE IF ScanTex1(Last(base)).count # 4 THEN {Parsed(FALSE, typed)}
        ELSE {accepted(ScanTex1(Last(base)).hash)}

\* The outcomes of the ParseFilename calls of one directory scan, in file
\* order; a directory entry is skipped.
RECURSIVE ParseFiles(_, _, _)
ParseFiles(files, refuse, overrides) ==
    IF files = << >> THEN { << >> }
    ELSE LET rest == ParseFiles(Tail(files), refuse, overrides) IN
         IF Head(files).isDirectory THEN rest
         ELSE { << p >> \o r :
                    p \in ParseFilename(Head(files).virtualName, refuse,
                                        overrides),
                    r \in rest }

\* ------------------------------------------------------------ descriptor
\* A pack.json as nlohmann::json::parse sees it: no file, a file of which
\* no byte is read, text that is not JSON, or a JSON document with its
\* options and its textures table (key order, each value a string, an array
\* of strings or something else).
NoOptions ==
    [skip_mipmap |-> FALSE, flip_png_files |-> FALSE, use_new_hash |-> FALSE]

NoConfig == [file |-> "absent", options |-> NoOptions, textures |-> << >>]

EmptyConfig == [file |-> "empty", options |-> NoOptions, textures |-> << >>]

MalformedConfig ==
    [file |-> "malformed", options |-> NoOptions, textures |-> << >>]

JsonConfig(options, textures) ==
    [file |-> "json", options |-> options, textures |-> textures]

\* ParseOverrides with operator[] for try_emplace: the later entry wins.
RECURSIVE ParseOverridesLastWins(_, _, _)
ParseOverridesLastWins(map, hash, paths) ==
    IF paths = << >> THEN map
    ELSE LET filename == GetFilename(Head(paths))
             next == [f \in DOMAIN map \cup {filename} |->
                         IF f = filename THEN hash ELSE map[f]]
         IN  ParseOverridesLastWins(next, hash, Tail(paths))

\* The parse lambda over the file paths of one textures entry: try_emplace
\* keeps an entry that is already there.
RECURSIVE ParseOverrides(_, _, _)
ParseOverrides(map, hash, paths) ==
    IF paths = << >> THEN map
    ELSE LET filename == GetFilename(Head(paths))
             next == IF filename \in DOMAIN map THEN map
                     ELSE [f \in DOMAIN map \cup {filename} |->
                              IF f = filename THEN hash ELSE map[f]]
         IN  ParseOverrides(next, hash, Tail(paths))

\* The loop over the textures table.  std::stoull throws when the key
\* starts with no hexadecimal digit.
RECURSIVE ReadTextures(_, _)
ReadTextures(map, textures) ==
    IF textures = << >> THEN [thrown |-> FALSE, map |-> map]
    ELSE LET key == ScanInteger(Head(textures).key, 1, 16)
             value == Head(textures).value
         IN  IF ~key.ok THEN [thrown |-> TRUE, map |-> map]
             ELSE ReadTextures(
                      IF value.kind \in {"string", "array"}
                      THEN ParseOverrides(map, key.value, value.paths)
                      ELSE map,
                      Tail(textures))

\* ReadConfig on the members c: the members it leaves, and whether it left
\* by an exception.
ReadConfig(config, c) ==
    IF config.file = "absent"
    THEN [c EXCEPT !.refuse_dds = TRUE]
    ELSE IF config.file = "empty" THEN c
    ELSE IF config.file = "malformed" THEN [c EXCEPT !.thrown = TRUE]
    ELSE LET t == ReadTextures(c.path_to_hash_map, config.textures) IN
         [thrown |-> t.thrown,
          skip_mipmap |-> config.options.skip_mipmap,
          flip_png_files |-> config.options.flip_png_files,
          use_new_hash |-> config.options.use_new_hash,
          refuse_dds |-> config.options.skip_mipmap
                             \/ ~config.options.use_new_hash,
          path_to_hash_map |-> t.map]

\* ------------------------------------------------------------ worker pool
NumWorkers ==
    (IF hardware_concurrency > 2 THEN hardware_concurrency ELSE 2) - 1

DecodeJob(m) == [kind |-> "decode", material |-> m]

PreloadJob == [kind |-> "preload", material |-> 0]

PreloadIdle ==
    [pc |-> "none", it |-> 0, size_sum |-> 0, preloaded |-> 0, max_mem |-> 0,
     before |-> << >>]

PreloadRunning == preload.pc \in {"check", "loading"}

BusyWorkers ==
    Cardinality(running) + (IF PreloadRunning THEN 1 ELSE 0)
        + Cardinality(encoding)

Step(name) ==
    [name |-> name, ret |-> FALSE, upload |-> FALSE, applied |-> << >>,
     args |-> << >>, parsed |-> << >>, thrown |-> FALSE]

File(name) == [virtualName |-> name, isDirectory |-> FALSE]

\* A base name as DumpTexture writes it, the hash in at least pad digits.
Tex1Name(width, height, hash, format, pad) ==
    << "t", "e", "x", "1", "_" >> \o FormatDec(width) \o << "x" >>
        \o FormatDec(height) \o << "_" >> \o FormatHex(hash, pad)
        \o << "_" >> \o FormatDec(format)

\* A pack without descriptor that holds one PNG file per material.
PlainPack ==
    [config |-> NoConfig,
     files |-> [m \in Materials |->
                   File(Tex1Name(1, 1, m, 0, 1) \o << "." >> \o png)]]

EmptyDumpDir == [config |-> NoConfig, files |-> {}]

\* The options as constructed.  Their initializers are not in this file:
\* where the options are not read one value each is tried.
DefaultOptions ==
    /\ skip_mipmap = FALSE
    /\ flip_png_files = TRUE
    /\ use_new_hash = TRUE
    /\ refuse_dds = FALSE

\* The containers of the pack and of the dump as constructed.
EmptyContainers ==
    /\ path_to_hash_map = << >>
    /\ custom_textures = << >>
    /\ dumped_textures = {}
    /\ encoding = {}
    /\ dump_queued = << >>
    /\ map_textures = << >>
    /\ dump_call = {}

Init ==
    /\ textures_loaded = FALSE
    /\ workers = FALSE
    /\ async_custom_loading \in BOOLEAN
    /\ disk \in [Materials -> DiskFiles]
    /\ material_map = << >>
    /\ async_uploads = << >>
    /\ requests = << >>
    /\ running = {}
    /\ preload = PreloadIdle
    /\ stop_run = FALSE
    /\ pc = "idle"
    /\ funcs = << >>
    /\ jobs_queued = [m \in Materials |-> 0]
    /\ last = Step("construct")
    /\ DefaultOptions
    /\ EmptyContainers
    /\ load_dir = PlainPack
    /\ dump_dir = EmptyDumpDir

\* ------------------------------------------------------------ discovery
\* The members ReadConfig reads and writes.
Members ==
    [thrown |-> FALSE, skip_mipmap |-> skip_mipmap,
     flip_png_files |-> flip_png_files, use_new_hash |-> use_new_hash,
     refuse_dds |-> refuse_dds, path_to_hash_map |-> path_to_hash_map]

\* Material::AddMapTexture over the accepted files of one scan: the texture
\* (its index in custom_textures, base + i) joins the textures its Material
\* holds under its map type.
AddMapTextures(map, base, parsed) ==
    LET accepted == { i \in DOMAIN parsed : parsed[i].ok }
        attached(h, type) ==
            { base + i : i \in { j \in accepted :
                                     /\ parsed[j].texture.hash = h
                                     /\ parsed[j].texture.type = type } }
    IN  [h \in DOMAIN map \cup { parsed[i].texture.hash : i \in accepted } |->
            [type \in {"Color", "Normal"} |->
                (IF h \in DOMAIN map THEN map[h][type] ELSE {})
                    \cup attached(h, type)]]

\* Discover that attaches a texture only to the Material it has just
\* created.
DiscoverAttachesToNew(parsed) ==
    /\ map_textures' =
           AddMapTextures(
               map_textures, Len(custom_textures),
               [i \in DOMAIN parsed |->
                   Parsed(/\ parsed[i].ok
                          /\ \A j \in 1..(i - 1) :
                                 parsed[j].ok
                                     => parsed[j].texture.hash
                                            # parsed[i].texture.hash,
                          parsed[i].texture)])
    /\ custom_textures' =
           custom_textures \o [i \in DOMAIN parsed |-> parsed[i].texture]
    /\ material_map' =
           [h \in DOMAIN material_map
                     \cup { parsed[i].texture.hash :
                                i \in { j \in DOMAIN parsed : parsed[j].ok } }
               |-> IF h \in DOMAIN material_map THEN material_map[h]
                   ELSE NewMaterial]
    /\ textures_loaded' = TRUE
    /\ last' = [Step("FindCustomTextures") EXCEPT
                    !.parsed = [i \in DOMAIN parsed |-> parsed[i].ok]]

\* Discover that creates the Material before it looks at what ParseFilename
\* returned.
DiscoverBeforeParse(parsed) ==
    /\ map_textures' =
           AddMapTextures(map_textures, Len(custom_textures),
                          [i \in DOMAIN parsed |-> Parsed(TRUE, parsed[i].texture)])
    /\ custom_textures' =
           custom_textures \o [i \in DOMAIN parsed |-> parsed[i].texture]
    /\ material_map' =
           [h \in DOMAIN material_map
                     \cup { parsed[i].texture.hash : i \in DOMAIN parsed }
               |-> IF h \in DOMAIN material_map THEN material_map[h]
                   ELSE NewMaterial]
    /\ textures_loaded' = TRUE
    /\ last' = [Step("FindCustomTextures") EXCEPT
                    !.parsed = [i \in DOMAIN parsed |-> parsed[i].ok]]

\* The loop over the scanned files: every file gets a CustomTexture, every
\* hash of an accepted file a Material that holds the file's texture.
Discover(parsed) ==
    /\ map_textures' =
           AddMapTextures(map_textures, Len(custom_textures), parsed)
    /\ custom_textures' =
           custom_textures \o [i \in DOMAIN parsed |-> parsed[i].texture]
    /\ material_map' =
           [h \in DOMAIN material_map
                     \cup { parsed[i].texture.hash :
                                i \in { j \in DOMAIN parsed : parsed[j].ok } }
               |-> IF h \in DOMAIN material_map THEN material_map[h]
                   ELSE NewMaterial]
    /\ textures_loaded' = TRUE
    /\ last' = [Step("FindCustomTextures") EXCEPT
                    !.parsed = [i \in DOMAIN parsed |-> parsed[i].ok]]

\* FindCustomTextures that does not look at textures_loaded.
FindCustomTexturesAgain ==
    /\ pc = "idle"
    /\ \E c \in {ReadConfig(load_dir.config, Members)} :
           /\ workers' = TRUE
           /\ skip_mipmap' = c.skip_mipmap
           /\ flip_png_files' = c.flip_png_files
           /\ use_new_hash' = c.use_new_hash
           /\ refuse_dds' = c.refuse_dds
           /\ path_to_hash_map' = c.path_to_hash_map
           /\ IF c.thrown
              THEN /\ last' = [Step("FindCustomTextures") EXCEPT
                                   !.thrown = TRUE]
                   /\ UNCHANGED << textures_loaded, material_map,
                                   custom_textures, map_textures >>
              ELSE \E parsed \in ParseFiles(load_dir.files, c.refuse_dds,
                                            c.path_to_hash_map) :
                       Discover(parsed)
    /\ UNCHANGED << async_custom_loading, disk, async_uploads, requests,
                    running, preload, stop_run, pc, funcs, jobs_queued,
                    dumped_textures, load_dir, dump_dir, encoding,
                    dump_queued, dump_call >>

\* FindCustomTextures: the discovered flag short-circuits repeat calls; a
\* first call creates the pool, reads the descriptor, scans the pack's
\* directory and sets the flag.  An exception of ReadConfig leaves the call
\* before the scan.
FindCustomTextures ==
    /\ pc = "idle"
    /\ IF textures_loaded
       THEN /\ last' = Step("FindCustomTextures")
            /\ UNCHANGED << textures_loaded, workers, material_map,
                            skip_mipmap, flip_png_files, use_new_hash,
                            refuse_dds, path_to_hash_map, custom_textures,
                            map_textures >>
       ELSE \E c \in {ReadConfig(load_dir.config, Members)} :
            /\ workers' = TRUE
            /\ skip_mipmap' = c.skip_mipmap
            /\ flip_png_files' = c.flip_png_files
            /\ use_new_hash' = c.use_new_hash
            /\ refuse_dds' = c.refuse_dds
            /\ path_to_hash_map' = c.path_to_hash_map
            /\ IF c.thrown
               THEN /\ last' = [Step("FindCustomTextures") EXCEPT
                                    !.thrown = TRUE]
                    /\ UNCHANGED << textures_loaded, material_map,
                                    custom_textures, map_textures >>
               ELSE \E parsed \in ParseFiles(load_dir.files, c.refuse_dds,
                                             c.path_to_hash_map) :
                        Discover(parsed)
    /\ UNCHANGED << async_custom_loading, disk, async_uploads, requests,
                    running, preload, stop_run, pc, funcs, jobs_queued,
                    dumped_textures, load_dir, dump_dir, encoding,
                    dump_queued, dump_call >>

\* ------------------------------------------------------------ GetMaterial
\* GetMaterial with operator[] for find.
GetMaterialInserts(data_hash) ==
    /\ pc = "idle"
    /\ material_map' =
           [h \in DOMAIN material_map \cup {data_hash} |->
               IF h \in DOMAIN material_map THEN material_map[h]
               ELSE NewMaterial]
    /\ last' = [Step("GetMaterial") EXCEPT
                    !.ret = data_hash \in DOMAIN material_map,
                    !.args = [data_hash |-> data_hash]]
    /\ UNCHANGED << textures_loaded, workers, async_custom_loading, disk,
                    async_uploads, requests, running, preload, stop_run, pc,
                    funcs, jobs_queued >>
    /\ UNCHANGED packvars

\* GetMaterial: the Material of the hash, or none (ret is whether there is
\* one).
GetMaterial(data_hash) ==
    /\ pc = "idle"
    /\ last' = [Step("GetMaterial") EXCEPT
                    !.ret = data_hash \in DOMAIN material_map,
                    !.args = [data_hash |-> data_hash]]
    /\ UNCHANGED pipevars
    /\ UNCHANGED packvars

\* ---------------------------------------------------------------- Decode
\* DecodeSync returning false instead of upload()'s result.
DecodeSyncDropsResult(m, r) ==
    /\ material_map' =
           [material_map EXCEPT ![m] = LoadFromDisk(@, disk[m])]
    /\ funcs' = Append(funcs, [material |-> m, invoked |-> 1,
                               queued |-> FALSE])
    /\ last' = [Step("Decode") EXCEPT !.upload = r]
    /\ UNCHANGED << async_uploads, requests, jobs_queued >>

\* DecodeAsync that queues the job without marking the material Pending.
DecodeAsyncNoPending(m, r) ==
    /\ IF IsUnloaded(material_map[m])
       THEN /\ requests' = Append(requests, DecodeJob(m))
            /\ jobs_queued' = [jobs_queued EXCEPT ![m] = @ + 1]
            /\ UNCHANGED material_map
       ELSE UNCHANGED << material_map, requests, jobs_queued >>
    /\ async_uploads' =
           Append(async_uploads, [material |-> m, func |-> Len(funcs) + 1])
    /\ funcs' = Append(funcs, [material |-> m, invoked |-> 0,
                               queued |-> TRUE])
    /\ last' = Step("Decode")

\* DecodeAsync gated on !IsDecoded() instead of IsUnloaded().
DecodeAsyncNotDecoded(m, r) ==
    /\ IF ~IsDecoded(material_map[m])
       THEN /\ material_map' =
                   [material_map EXCEPT ![m].state = "Pending"]
            /\ requests' = Append(requests, DecodeJob(m))
            /\ jobs_queued' = [jobs_queued EXCEPT ![m] = @ + 1]
       ELSE UNCHANGED << material_map, requests, jobs_queued >>
    /\ async_uploads' =
           Append(async_uploads, [material |-> m, func |-> Len(funcs) + 1])
    /\ funcs' = Append(funcs, [material |-> m, invoked |-> 0,
                               queued |-> TRUE])
    /\ last' = Step("Decode")

\* DecodeAsync with push_front for push_back.
DecodeAsyncPushFront(m, r) ==
    /\ IF IsUnloaded(material_map[m])
       THEN /\ material_map' =
                   [material_map EXCEPT ![m].state = "Pending"]
            /\ requests' = Append(requests, DecodeJob(m))
            /\ jobs_queued' = [jobs_queued EXCEPT ![m] = @ + 1]
       ELSE UNCHANGED << material_map, requests, jobs_queued >>
    /\ async_uploads' =
           << [material |-> m, func |-> Len(funcs) + 1] >> \o async_uploads
    /\ funcs' = Append(funcs, [material |-> m, invoked |-> 0,
                               queued |-> TRUE])
    /\ last' = Step("Decode")

\* The synchronous path: load on the calling thread, then return upload().
\* r is what the closure returns when it is invoked.
DecodeSync(m, r) ==
    /\ material_map' =
           [material_map EXCEPT ![m] = LoadFromDisk(@, disk[m])]
    /\ funcs' = Append(funcs, [material |-> m, invoked |-> 1,
                               queued |-> FALSE])
    /\ last' = [Step("Decode") EXCEPT !.ret = r, !.upload = r]
    /\ UNCHANGED << async_uploads, requests, jobs_queued >>

\* DecodeAsync that applies the closure of a Decoded material in the call
\* and queues nothing for it.
DecodeAsyncAppliesDecoded(m, r) ==
    IF IsDecoded(material_map[m])
    THEN /\ funcs' = Append(funcs, [material |-> m, invoked |-> 1,
                                    queued |-> FALSE])
         /\ last' = [Step("Decode") EXCEPT !.ret = r, !.upload = r]
         /\ UNCHANGED << material_map, async_uploads, requests, jobs_queued >>
    ELSE /\ IF IsUnloaded(material_map[m])
            THEN /\ material_map' =
                        [material_map EXCEPT ![m].state = "Pending"]
                 /\ requests' = Append(requests, DecodeJob(m))
                 /\ jobs_queued' = [jobs_queued EXCEPT ![m] = @ + 1]
            ELSE UNCHANGED << material_map, requests, jobs_queued >>
         /\ async_uploads' =
                Append(async_uploads,
                       [material |-> m, func |-> Len(funcs) + 1])
         /\ funcs' = Append(funcs, [material |-> m, invoked |-> 0,
                                    queued |-> TRUE])
         /\ last' = Step("Decode")

\* The asynchronous path: an Unloaded material becomes Pending and gets its
\* decode job; the closure is appended to async_uploads in every case.
DecodeAsync(m, r) ==
    /\ IF IsUnloaded(material_map[m])
       THEN /\ material_map' =
                   [material_map EXCEPT ![m].state = "Pending"]
            /\ requests' = Append(requests, DecodeJob(m))
            /\ jobs_queued' = [jobs_queued EXCEPT ![m] = @ + 1]
       ELSE UNCHANGED << material_map, requests, jobs_queued >>
    /\ async_uploads' =
           Append(async_uploads, [material |-> m, func |-> Len(funcs) + 1])
    /\ funcs' = Append(funcs, [material |-> m, invoked |-> 0,
                               queued |-> TRUE])
    /\ last' = Step("Decode")

Decode(m, r) ==
    /\ pc = "idle"
    /\ m \in DOMAIN material_map
    /\ Len(funcs) < MaxDecodes
    /\ IF ~async_custom_loading THEN DecodeSync(m, r) ELSE DecodeAsync(m, r)
    /\ UNCHANGED << textures_loaded, workers, async_custom_loading, disk,
                    running, preload, stop_run, pc >>
    /\ UNCHANGED packvars

\* ------------------------------------------------------------- TickFrame
Erase(q, it) ==
    CHOOSE r \in { SubSeq(s, 1, it - 1) \o SubSeq(s, it + 1, Len(s)) :
                       s \in {q} } : TRUE

\* TickLoop that counts an entry it steps over as an upload.
RECURSIVE TickLoopCountsPending(_, _, _, _)
TickLoopCountsPending(q, it, num_uploads, applied) ==
    IF it > Len(q) \/ num_uploads >= MAX_UPLOADS_PER_TICK
    THEN [queue |-> q, num_uploads |-> num_uploads, applied |-> applied]
    ELSE LET state == material_map[q[it].material].state IN
         CASE state = "Decoded" ->
                  TickLoopCountsPending(Erase(q, it), it, num_uploads + 1,
                                        Append(applied, q[it].func))
           [] state = "Failed" ->
                  TickLoopCountsPending(Erase(q, it), it, num_uploads,
                                        applied)
           [] OTHER -> TickLoopCountsPending(q, it + 1, num_uploads + 1,
                                             applied)

\* TickLoop with the budget test off by one (> for >=).
RECURSIVE TickLoopOffByOne(_, _, _, _)
TickLoopOffByOne(q, it, num_uploads, applied) ==
    IF it > Len(q) \/ num_uploads > MAX_UPLOADS_PER_TICK
    THEN [queue |-> q, num_uploads |-> num_uploads, applied |-> applied]
    ELSE LET state == material_map[q[it].material].state IN
         CASE state = "Decoded" ->
                  TickLoopOffByOne(Erase(q, it), it, num_uploads + 1,
                                   Append(applied, q[it].func))
           [] state = "Failed" ->
                  TickLoopOffByOne(Erase(q, it), it, num_uploads, applied)
           [] OTHER -> TickLoopOffByOne(q, it + 1, num_uploads, applied)

\* TickLoop with the Failed label placed above the upload (Failed entries
\* are uploaded like Decoded ones).
RECURSIVE TickLoopUploadsFailed(_, _, _, _)
TickLoopUploadsFailed(q, it, num_uploads, applied) ==
    IF it > Len(q) \/ num_uploads >= MAX_UPLOADS_PER_TICK
    THEN [queue |-> q, num_uploads |-> num_uploads, applied |-> applied]
    ELSE LET state == material_map[q[it].material].state IN
         CASE state \in {"Decoded", "Failed"} ->
                  TickLoopUploadsFailed(Erase(q, it), it, num_uploads + 1,
                                        Append(applied, q[it].func))
           [] OTHER -> TickLoopUploadsFailed(q, it + 1, num_uploads, applied)

\* TickLoop that invokes the closure of a Decoded material and leaves its
\* entry in the list.
RECURSIVE TickLoopKeepsApplied(_, _, _, _)
TickLoopKeepsApplied(q, it, num_uploads, applied) ==
    IF it > Len(q) \/ num_uploads >= MAX_UPLOADS_PER_TICK
    THEN [queue |-> q, num_uploads |-> num_uploads, applied |-> applied]
    ELSE LET state == material_map[q[it].material].state IN
         CASE state = "Decoded" ->
                  TickLoopKeepsApplied(q, it + 1, num_uploads + 1,
                                       Append(applied, q[it].func))
           [] state = "Failed" ->
                  TickLoopKeepsApplied(Erase(q, it), it, num_uploads, applied)
           [] OTHER -> TickLoopKeepsApplied(q, it + 1, num_uploads, applied)

\* TickLoop that steps over the entry of a Failed material and leaves it in
\* the list.
RECURSIVE TickLoopKeepsFailed(_, _, _, _)
TickLoopKeepsFailed(q, it, num_uploads, applied) ==
    IF it > Len(q) \/ num_uploads >= MAX_UPLOADS_PER_TICK
    THEN [queue |-> q, num_uploads |-> num_uploads, applied |-> applied]
    ELSE LET state == material_map[q[it].material].state IN
         CASE state = "Decoded" ->
                  TickLoopKeepsFailed(Erase(q, it), it, num_uploads + 1,
                                      Append(applied, q[it].func))
           [] OTHER -> TickLoopKeepsFailed(q, it + 1, num_uploads, applied)

\* The loop of TickFrame over async_uploads: q is the list, it the iterator's
\* position, num_uploads the local counter, applied the closures invoked so
\* far, in order.
RECURSIVE TickLoop(_, _, _, _)
TickLoop(q, it, num_uploads, applied) ==
    IF it > Len(q) \/ num_uploads >= MAX_UPLOADS_PER_TICK
    THEN [queue |-> q, num_uploads |-> num_uploads, applied |-> applied]
    ELSE LET state == material_map[q[it].material].state IN
         CASE state = "Decoded" ->
                  TickLoop(Erase(q, it), it, num_uploads + 1,
                           Append(applied, q[it].func))
           [] state = "Failed" ->
                  TickLoop(Erase(q, it), it, num_uploads, applied)
           [] OTHER -> TickLoop(q, it + 1, num_uploads, applied)

Range(f) == { f[i] : i \in DOMAIN f }

\* TickFrame with the test of textures_loaded inverted.
TickFrameGuardInverted ==
    /\ pc = "idle"
    /\ IF textures_loaded
       THEN /\ UNCHANGED << async_uploads, funcs >>
            /\ last' = Step("TickFrame")
       ELSE \E t \in {TickLoop(async_uploads, 1, 0, << >>)} :
            \E ran \in {Range(t.applied)} :
            /\ async_uploads' = t.queue
            /\ funcs' = [f \in DOMAIN funcs |->
                            IF f \in ran
                            THEN [funcs[f] EXCEPT !.invoked = @ + 1]
                            ELSE funcs[f]]
            /\ last' = [Step("TickFrame") EXCEPT !.applied = t.applied]
    /\ UNCHANGED << textures_loaded, workers, async_custom_loading, disk,
                    material_map, requests, running, preload, stop_run, pc,
                    jobs_queued >>
    /\ UNCHANGED packvars

\* TickFrame: nothing before discovery; then the loop over async_uploads.
TickFrame ==
    /\ pc = "idle"
    /\ IF ~textures_loaded
       THEN /\ UNCHANGED << async_uploads, funcs >>
            /\ last' = Step("TickFrame")
       ELSE \E t \in {TickLoop(async_uploads, 1, 0, << >>)} :
            \E ran \in {Range(t.applied)} :
            /\ async_uploads' = t.queue
            /\ funcs' = [f \in DOMAIN funcs |->
                            IF f \in ran
                            THEN [funcs[f] EXCEPT !.invoked = @ + 1]
                            ELSE funcs[f]]
            /\ last' = [Step("TickFrame") EXCEPT !.applied = t.applied]
    /\ UNCHANGED << textures_loaded, workers, async_custom_loading, disk,
                    material_map, requests, running, preload, stop_run, pc,
                    jobs_queued >>
    /\ UNCHANGED packvars

\* ---------------------------------------------------------------- Preload
MaxMem(sys_mem) ==
    IF sys_mem \div 2 < recommended_min_mem
    THEN sys_mem \div 2
    ELSE sys_mem - recommended_min_mem

\* ---------------------------------------------------- the budget in bytes
\* A u64 as its four 16-bit limbs, the most significant first.
Limb == 65536

U64 == [1..4 -> 0..(Limb - 1)]

Less64(a, b) ==
    \E i \in 1..4 : a[i] < b[i] /\ \A j \in 1..(i - 1) : a[j] = b[j]

\* a / 2.
Half64(a) ==
    [i \in 1..4 |->
        (a[i] \div 2) + (IF i > 1 THEN (a[i - 1] % 2) * (Limb \div 2) ELSE 0)]

\* The borrow limb i of a - b takes from the limb above it.
RECURSIVE Borrow64(_, _, _)
Borrow64(a, b, i) ==
    IF i > 4 THEN 0
    ELSE IF a[i] - b[i] - Borrow64(a, b, i + 1) < 0 THEN 1 ELSE 0

\* a - b as the machine computes it, modulo 2^64.
Sub64(a, b) ==
    [i \in 1..4 |-> (a[i] - b[i] - Borrow64(a, b, i + 1)) % Limb]

\* 2 * size_t(1024 * 1024 * 1024), in bytes.
recommended_min_mem_u64 == << 0, 0, Limb \div 2, 0 >>

\* max_mem with sys_mem, not sys_mem / 2, compared to recommended_min_mem.
MaxMem64ComparesTotal(sys_mem) ==
    IF Less64(sys_mem, recommended_min_mem_u64)
    THEN Half64(sys_mem)
    ELSE Sub64(sys_mem, recommended_min_mem_u64)

\* max_mem, in bytes, of sys_mem in bytes.
MaxMem64(sys_mem) ==
    IF Less64(Half64(sys_mem), recommended_min_mem_u64)
    THEN Half64(sys_mem)
    ELSE Sub64(sys_mem, recommended_min_mem_u64)

\* The first statements of PreloadTextures: max_mem is computed of the
\* total physical memory.
PreloadBudget(sys_mem) ==
    /\ pc = "idle"
    /\ last' = [Step("PreloadBudget") EXCEPT
                    !.args = [sys_mem |-> sys_mem,
                              max_mem |-> MaxMem64(sys_mem)]]
    /\ UNCHANGED pipevars
    /\ UNCHANGED packvars

\* PreloadTextures up to WaitForRequests: the job is queued and the caller
\* blocks.  s is the value of stop_run at the call.
PreloadTextures(sys_mem, s) ==
    /\ pc = "idle"
    /\ workers
    /\ requests' = Append(requests, PreloadJob)
    /\ preload' = [pc |-> "queued", it |-> 1, size_sum |-> 0,
                   preloaded |-> 0, max_mem |-> MaxMem(sys_mem),
                   before |-> material_map]
    /\ stop_run' = s
    /\ pc' = "WaitForRequests"
    /\ last' = Step("PreloadTextures")
    /\ UNCHANGED << textures_loaded, workers, async_custom_loading, disk,
                    material_map, async_uploads, running, funcs,
                    jobs_queued >>
    /\ UNCHANGED packvars

\* PreloadReturn that does not wait for the pool.
PreloadReturnNoWait ==
    /\ pc = "WaitForRequests"
    /\ async_custom_loading' = FALSE
    /\ preload' = IF preload.pc = "done" THEN PreloadIdle ELSE preload
    /\ pc' = "idle"
    /\ stop_run' = FALSE
    /\ last' = Step("PreloadReturn")
    /\ UNCHANGED << textures_loaded, workers, disk, material_map,
                    async_uploads, requests, running, funcs,
                    jobs_queued >>
    /\ UNCHANGED packvars

\* PreloadReturn without the write to async_custom_loading.
PreloadReturnKeepsAsync ==
    /\ pc = "WaitForRequests"
    /\ requests = << >>
    /\ running = {}
    /\ encoding = {}
    /\ preload.pc = "done"
    /\ preload' = PreloadIdle
    /\ pc' = "idle"
    /\ stop_run' = FALSE
    /\ last' = Step("PreloadReturn")
    /\ UNCHANGED << textures_loaded, workers, async_custom_loading, disk,
                    material_map, async_uploads, requests, running, funcs,
                    jobs_queued >>
    /\ UNCHANGED packvars

\* WaitForRequests returns once the pool is idle; then the flag is cleared.
PreloadReturn ==
    /\ pc = "WaitForRequests"
    /\ requests = << >>
    /\ running = {}
    /\ encoding = {}
    /\ preload.pc = "done"
    /\ async_custom_loading' = FALSE
    /\ preload' = PreloadIdle
    /\ pc' = "idle"
    /\ stop_run' = FALSE
    /\ last' = Step("PreloadReturn")
    /\ UNCHANGED << textures_loaded, workers, disk, material_map,
                    async_uploads, requests, running, funcs,
                    jobs_queued >>
    /\ UNCHANGED packvars

\* The owner of stop_run sets it while the preload runs.
Cancel ==
    /\ pc = "WaitForRequests"
    /\ ~stop_run
    /\ stop_run' = TRUE
    /\ last' = Step("Cancel")
    /\ UNCHANGED << textures_loaded, workers, async_custom_loading, disk,
                    material_map, async_uploads, requests, running, preload,
                    pc, funcs, jobs_queued >>
    /\ UNCHANGED packvars

\* ---------------------------------------------------------- worker threads
\* A worker takes a decode job and enters LoadFromDisk, which returns at once
\* for a Decoded material.
DecodeJobStart ==
    /\ requests # << >>
    /\ Head(requests).kind = "decode"
    /\ BusyWorkers < NumWorkers
    /\ requests' = Tail(requests)
    /\ LET m == Head(requests).material IN
           running' = IF IsDecoded(material_map[m]) THEN running
                      ELSE running \cup {m}
    /\ last' = Step("DecodeJobStart")
    /\ UNCHANGED << textures_loaded, workers, async_custom_loading, disk,
                    material_map, async_uploads, preload, stop_run, pc, funcs,
                    jobs_queued >>
    /\ UNCHANGED packvars

\* The decode job's load completes: it writes state and size.
DecodeJobFinish(m) ==
    /\ m \in running
    /\ material_map' = [material_map EXCEPT ![m] = Loaded(@, disk[m])]
    /\ running' = running \ {m}
    /\ last' = Step("DecodeJobFinish")
    /\ UNCHANGED << textures_loaded, workers, async_custom_loading, disk,
                    async_uploads, requests, preload, stop_run, pc, funcs,
                    jobs_queued >>
    /\ UNCHANGED packvars

\* PreloadJobStart that enters the load of the first material before any
\* exit test.
PreloadJobStartSkipsCheck ==
    /\ requests # << >>
    /\ Head(requests).kind = "preload"
    /\ BusyWorkers < NumWorkers
    /\ requests' = Tail(requests)
    /\ preload' = [preload EXCEPT
                       !.pc = IF /\ material_map # << >>
                                 /\ ~IsDecoded(material_map[1])
                              THEN "loading" ELSE "check"]
    /\ last' = Step("PreloadJobStart")
    /\ UNCHANGED << textures_loaded, workers, async_custom_loading, disk,
                    material_map, async_uploads, running, stop_run, pc, funcs,
                    jobs_queued >>
    /\ UNCHANGED packvars

\* A worker takes the preload job and enters its loop.
PreloadJobStart ==
    /\ requests # << >>
    /\ Head(requests).kind = "preload"
    /\ BusyWorkers < NumWorkers
    /\ requests' = Tail(requests)
    /\ preload' = [preload EXCEPT !.pc = "check"]
    /\ last' = Step("PreloadJobStart")
    /\ UNCHANGED << textures_loaded, workers, async_custom_loading, disk,
                    material_map, async_uploads, running, stop_run, pc, funcs,
                    jobs_queued >>
    /\ UNCHANGED packvars

\* The arguments of the progress callback with preloaded incremented before
\* the call.
CallbackAfterIncrement(p) ==
    [completed |-> p.preloaded + 1, total |-> Len(custom_textures)]

\* The arguments of the progress callback in one loop iteration: preloaded
\* before its increment and custom_textures.size().  The callback tried is
\* not empty.
Callback(p) ==
    [completed |-> p.preloaded, total |-> Len(custom_textures)]

\* The rest of one loop iteration once the material's load has returned.
PreloadAdvance(p, size) ==
    [p EXCEPT !.size_sum = @ + size, !.preloaded = @ + 1, !.it = @ + 1,
              !.pc = "check"]

\* PreloadExit with >= for > in the budget test.
PreloadExitAtBudget(p) ==
    \/ p.it > Cardinality(DOMAIN material_map)
    \/ p.size_sum >= p.max_mem
    \/ stop_run

\* PreloadExit without the test of stop_run.
PreloadExitIgnoresStop(p) ==
    \/ p.it > Cardinality(DOMAIN material_map)
    \/ p.size_sum > p.max_mem

\* Whether the loop leaves before loading the material at p.it.
PreloadExit(p) ==
    \/ p.it > Cardinality(DOMAIN material_map)
    \/ p.size_sum > p.max_mem
    \/ stop_run

\* PreloadJobCheck with the load moved before the two exit tests: the
\* material at which the loop leaves has been loaded.
PreloadJobCheckLoadsFirst ==
    /\ preload.pc = "check"
    /\ IF PreloadExit(preload)
       THEN /\ preload' = [preload EXCEPT !.pc = "done"]
            /\ material_map' =
                   IF preload.it <= Cardinality(DOMAIN material_map)
                   THEN [material_map EXCEPT
                             ![preload.it] = Loaded(@, disk[preload.it])]
                   ELSE material_map
       ELSE /\ preload' =
                   IF IsDecoded(material_map[preload.it])
                   THEN PreloadAdvance(preload, material_map[preload.it].size)
                   ELSE [preload EXCEPT !.pc = "loading"]
            /\ UNCHANGED material_map
    /\ last' = Step("PreloadJobCheck")
    /\ UNCHANGED << textures_loaded, workers, async_custom_loading, disk,
                    async_uploads, requests, running, stop_run,
                    pc, funcs, jobs_queued >>
    /\ UNCHANGED packvars

\* The head of one loop iteration: the two exit tests, then the entry into
\* LoadFromDisk, which returns at once for a Decoded material: the
\* iteration then ends in this step, with its call of the callback.
PreloadJobCheck ==
    /\ preload.pc = "check"
    /\ preload' =
           IF PreloadExit(preload) THEN [preload EXCEPT !.pc = "done"]
           ELSE IF IsDecoded(material_map[preload.it])
           THEN PreloadAdvance(preload, material_map[preload.it].size)
           ELSE [preload EXCEPT !.pc = "loading"]
    /\ last' = IF ~PreloadExit(preload)
                  /\ IsDecoded(material_map[preload.it])
               THEN [Step("PreloadJobCheck") EXCEPT
                         !.args = Callback(preload)]
               ELSE Step("PreloadJobCheck")
    /\ UNCHANGED << textures_loaded, workers, async_custom_loading, disk,
                    material_map, async_uploads, requests, running, stop_run,
                    pc, funcs, jobs_queued >>
    /\ UNCHANGED packvars

\* The preload job's load of the current material completes.
PreloadJobLoadEnd ==
    /\ preload.pc = "loading"
    /\ LET mat == Loaded(material_map[preload.it], disk[preload.it]) IN
           /\ material_map' = [material_map EXCEPT ![preload.it] = mat]
           /\ preload' = PreloadAdvance(preload, mat.size)
    /\ last' = [Step("PreloadJobLoadEnd") EXCEPT !.args = Callback(preload)]
    /\ UNCHANGED << textures_loaded, workers, async_custom_loading, disk,
                    async_uploads, requests, running, stop_run, pc, funcs,
                    jobs_queued >>
    /\ UNCHANGED packvars

\* ----------------------------------------------------------- WriteConfig
\* WriteConfig with the Exists test left out.
WriteConfigOverwrites(ok) ==
    /\ pc = "idle"
    /\ dump_dir' =
           IF ok
           THEN [dump_dir EXCEPT !.config = JsonConfig(
                    [skip_mipmap |-> skip_mipmap,
                     flip_png_files |-> flip_png_files,
                     use_new_hash |-> use_new_hash], << >>)]
           ELSE dump_dir
    /\ last' = Step("WriteConfig")
    /\ UNCHANGED << pipevars, skip_mipmap, flip_png_files, use_new_hash,
                    refuse_dds, path_to_hash_map, custom_textures,
                    dumped_textures, load_dir, encoding, dump_queued,
                    map_textures, dump_call >>

\* WriteConfig: nothing is written over a pack.json that exists; otherwise
\* the three options are written, if the file can be opened (ok).
WriteConfig(ok) ==
    /\ pc = "idle"
    /\ dump_dir' =
           IF dump_dir.config.file = "absent" /\ ok
           THEN [dump_dir EXCEPT !.config = JsonConfig(
                    [skip_mipmap |-> skip_mipmap,
                     flip_png_files |-> flip_png_files,
                     use_new_hash |-> use_new_hash], << >>)]
           ELSE dump_dir
    /\ last' = Step("WriteConfig")
    /\ UNCHANGED << pipevars, skip_mipmap, flip_png_files, use_new_hash,
                    refuse_dds, path_to_hash_map, custom_textures,
                    dumped_textures, load_dir, encoding, dump_queued,
                    map_textures, dump_call >>

\* ----------------------------------------------------------- DumpTexture
RECURSIVE BitAnd(_, _)
BitAnd(a, b) ==
    IF a = 0 \/ b = 0 THEN 0
    ELSE (a % 2) * (b % 2) + 2 * BitAnd(a \div 2, b \div 2)

\* IsPow2 without the test for zero.
IsPow2AcceptsZero(value) == value = 0 \/ BitAnd(value, value - 1) = 0

\* For value = 0 the second operand, value - 1 in u32, is not evaluated.
IsPow2(value) == value # 0 /\ BitAnd(value, value - 1) = 0

\* "tex1_{}x{}_{:016X}_{}_mip{}.png"
DumpName(width, height, data_hash, format, level) ==
    << "t", "e", "x", "1", "_" >> \o FormatDec(width) \o << "x" >>
        \o FormatDec(height) \o << "_" >> \o FormatHex(data_hash, 16)
        \o << "_" >> \o FormatDec(format)
        \o << "_", "m", "i", "p" >> \o FormatDec(level) \o << "." >> \o png

DumpJob(path) == [kind |-> "dump", material |-> 0, path |-> path]

\* DumpTexture whose short-circuit looks at the file only, not at
\* dumped_textures.
DumpTextureNoContains(width, height, format, level, data_hash, created) ==
    /\ pc = "idle"
    /\ Len(dump_queued) < MaxDumps
    /\ \E dump_path \in {DumpName(width, height, data_hash, format, level)} :
           IF /\ created
              /\ dump_path \notin dump_dir.files
              /\ IsPow2(width)
              /\ IsPow2(height)
           THEN /\ workers' = TRUE
                /\ requests' = Append(requests, DumpJob(dump_path))
                /\ dump_queued' =
                       Append(dump_queued,
                              [hash |-> data_hash, path |-> dump_path])
                /\ dump_call' = {data_hash}
                /\ pc' = "insert"
           ELSE UNCHANGED << workers, requests, dump_queued, dump_call, pc >>
    /\ last' = [Step("DumpTexture") EXCEPT
                    !.args = [width |-> width, height |-> height,
                              format |-> format, level |-> level,
                              data_hash |-> data_hash, created |-> created]]
    /\ UNCHANGED << textures_loaded, async_custom_loading, disk,
                    material_map, async_uploads, running, preload, stop_run,
                    funcs, jobs_queued, skip_mipmap, flip_png_files,
                    use_new_hash, refuse_dds, path_to_hash_map,
                    custom_textures, dumped_textures, load_dir, dump_dir,
                    encoding, map_textures >>

\* DumpTexture up to QueueWork.  created: whether CreateFullPath succeeds.
\* The encode job is queued; the hash is inserted after that, by the
\* statement that follows (DumpTextureReturn), while the pool may already
\* work on the job.
DumpTexture(width, height, format, level, data_hash, created) ==
    /\ pc = "idle"
    /\ Len(dump_queued) < MaxDumps
    /\ \E dump_path \in {DumpName(width, height, data_hash, format, level)} :
           IF /\ created
              /\ data_hash \notin dumped_textures
              /\ dump_path \notin dump_dir.files
              /\ IsPow2(width)
              /\ IsPow2(height)
           THEN /\ workers' = TRUE
                /\ requests' = Append(requests, DumpJob(dump_path))
                /\ dump_queued' =
                       Append(dump_queued,
                              [hash |-> data_hash, path |-> dump_path])
                /\ dump_call' = {data_hash}
                /\ pc' = "insert"
           ELSE UNCHANGED << workers, requests, dump_queued, dump_call, pc >>
    /\ last' = [Step("DumpTexture") EXCEPT
                    !.args = [width |-> width, height |-> height,
                              format |-> format, level |-> level,
                              data_hash |-> data_hash, created |-> created]]
    /\ UNCHANGED << textures_loaded, async_custom_loading, disk,
                    material_map, async_uploads, running, preload, stop_run,
                    funcs, jobs_queued, skip_mipmap, flip_png_files,
                    use_new_hash, refuse_dds, path_to_hash_map,
                    custom_textures, dumped_textures, load_dir, dump_dir,
                    encoding, map_textures >>

\* The last statement of DumpTexture: the hash is inserted into
\* dumped_textures and the call returns.
DumpTextureReturn ==
    /\ pc = "insert"
    /\ dumped_textures' = dumped_textures \cup dump_call
    /\ dump_call' = {}
    /\ pc' = "idle"
    /\ last' = Step("DumpTextureReturn")
    /\ UNCHANGED << textures_loaded, workers, async_custom_loading, disk,
                    material_map, async_uploads, requests, running, preload,
                    stop_run, funcs, jobs_queued, skip_mipmap,
                    flip_png_files, use_new_hash, refuse_dds,
                    path_to_hash_map, custom_textures, load_dir, dump_dir,
                    encoding, dump_queued, map_textures >>

\* A worker takes an encode job.
DumpJobStart ==
    /\ requests # << >>
    /\ Head(requests).kind = "dump"
    /\ BusyWorkers < NumWorkers
    /\ requests' = Tail(requests)
    /\ encoding' = encoding \cup {Head(requests).path}
    /\ last' = Step("DumpJobStart")
    /\ UNCHANGED << textures_loaded, workers, async_custom_loading, disk,
                    material_map, async_uploads, running, preload, stop_run,
                    pc, funcs, jobs_queued, skip_mipmap, flip_png_files,
                    use_new_hash, refuse_dds, path_to_hash_map,
                    custom_textures, dumped_textures, load_dir, dump_dir,
                    dump_queued,
                    map_textures, dump_call >>

\* The encode job ends: EncodePNG has written the file, or failed to.
DumpJobFinish(path, written) ==
    /\ path \in encoding
    /\ encoding' = encoding \ {path}
    /\ dump_dir' = IF written
                   THEN [dump_dir EXCEPT !.files = @ \cup {path}]
                   ELSE dump_dir
    /\ last' = Step("DumpJobFinish")
    /\ UNCHANGED << pipevars, skip_mipmap, flip_png_files, use_new_hash,
                    refuse_dds, path_to_hash_map, custom_textures,
                    dumped_textures, load_dir, dump_queued,
                    map_textures, dump_call >>

Next ==
    \/ FindCustomTextures
    \/ \E m \in Materials, r \in BOOLEAN : Decode(m, r)
    \/ TickFrame
    \/ \E sys_mem \in SysMems, s \in BOOLEAN : PreloadTextures(sys_mem, s)
    \/ PreloadReturn
    \/ Cancel
    \/ DecodeJobStart
    \/ \E m \in Materials : DecodeJobFinish(m)
    \/ PreloadJobStart
    \/ PreloadJobCheck
    \/ PreloadJobLoadEnd

Spec == Init /\ [][Next]_vars

\* ------------------------------------------------------------------------
\* SpecTick: TickFrame on long queues.  It starts where the program is after
\* discovery and a + b + c asynchronous Decode calls (a on one material, then
\* b <= MaxTickMid on the next, then c on the one after), the decode jobs of
\* some of these materials finished and no TickFrame called yet.  Decoded
\* sizes play no part in TickFrame: one size is tried.
TickDiskFiles == { f \in DiskFiles : f.size <= 1024 }

SegmentMaterial(j) == ((j - 1) % NumMaterials) + 1

TickQueue(a, b, c) ==
    [i \in 1..(a + b + c) |->
        [material |-> SegmentMaterial(IF i <= a THEN 1
                                      ELSE IF i <= a + b THEN 2 ELSE 3),
         func |-> i]]

QueuedMaterials(q) == { q[i].material : i \in DOMAIN q }

RECURSIVE PendingJobs(_, _)
PendingJobs(mm, m) ==
    IF m > NumMaterials THEN << >>
    ELSE (IF mm[m].state = "Pending" THEN << DecodeJob(m) >> ELSE << >>)
         \o PendingJobs(mm, m + 1)

\* What the discovery of PlainPack leaves in custom_textures.
PlainParsed == ParseFiles(PlainPack.files, TRUE, << >>)

InitTick ==
    /\ textures_loaded = TRUE
    /\ workers = TRUE
    /\ async_custom_loading = TRUE
    /\ disk \in [Materials -> TickDiskFiles]
    /\ \E a, c \in 0..MaxTickQueue, b \in 0..MaxTickMid :
           /\ a + b + c <= MaxTickQueue
           /\ async_uploads = TickQueue(a, b, c)
    /\ material_map \in
           [Materials -> [state : {"Unloaded", "Pending", "Decoded", "Failed"},
                          size : {0, 1024}]]
    /\ \A m \in Materials :
           /\ IsUnloaded(material_map[m])
                  <=> m \notin QueuedMaterials(async_uploads)
           /\ material_map[m] \in
                  {NewMaterial, [NewMaterial EXCEPT !.state = "Pending"],
                   Loaded(NewMaterial, disk[m])}
    /\ requests = PendingJobs(material_map, 1)
    /\ running = {}
    /\ preload = PreloadIdle
    /\ stop_run = FALSE
    /\ pc = "idle"
    /\ funcs = [i \in DOMAIN async_uploads |->
                   [material |-> async_uploads[i].material, invoked |-> 0,
                    queued |-> TRUE]]
    /\ jobs_queued = [m \in Materials |->
                         IF IsUnloaded(material_map[m]) THEN 0 ELSE 1]
    /\ last = Step("Decode")
    /\ skip_mipmap = FALSE
    /\ flip_png_files = TRUE
    /\ use_new_hash = TRUE
    /\ refuse_dds = TRUE
    /\ path_to_hash_map = << >>
    /\ \E parsed \in PlainParsed :
           /\ custom_textures = [i \in DOMAIN parsed |-> parsed[i].texture]
           /\ map_textures = AddMapTextures(<< >>, 0, parsed)
    /\ dumped_textures = {}
    /\ encoding = {}
    /\ dump_queued = << >>
    /\ dump_call = {}
    /\ load_dir = PlainPack
    /\ dump_dir = EmptyDumpDir

NextTick ==
    \/ TickFrame
    \/ DecodeJobStart
    \/ \E m \in Materials : DecodeJobFinish(m)

SpecTick == InitTick /\ [][NextTick]_vars

\* ------------------------------------------------------------------------
\* SpecDrain: the drain of async_uploads under fair scheduling.  It starts
\* where SpecTick starts, with an empty queue or with one entry more than
\* one TickFrame call uploads (all but the last of one material), and goes
\* on with Decode, TickFrame, the preload pass and the worker jobs.  The
\* cancellation flag is set by Cancel only.  The pool runs every job it holds to
\* completion (weak fairness of each worker step and of the return of
\* WaitForRequests: each stays enabled until it is taken); TickFrame is
\* called again and again (strong fairness: the call is not possible while
\* the caller waits in PreloadTextures).
DrainBacklog == MAX_UPLOADS_PER_TICK + 1

InitDrain ==
    /\ InitTick
    /\ async_uploads \in {<< >>, TickQueue(MAX_UPLOADS_PER_TICK, 1, 0)}

NextDrain ==
    \/ \E m \in Materials, r \in BOOLEAN : Decode(m, r)
    \/ TickFrame
    \/ \E sys_mem \in SysMems : PreloadTextures(sys_mem, FALSE)
    \/ PreloadReturn
    \/ Cancel
    \/ DecodeJobStart
    \/ \E m \in Materials : DecodeJobFinish(m)
    \/ PreloadJobStart
    \/ PreloadJobCheck
    \/ PreloadJobLoadEnd

FairDrain ==
    /\ SF_vars(TickFrame)
    /\ WF_vars(PreloadReturn)
    /\ WF_vars(DecodeJobStart)
    /\ \A m \in Materials : WF_vars(DecodeJobFinish(m))
    /\ WF_vars(PreloadJobStart)
    /\ WF_vars(PreloadJobCheck)
    /\ WF_vars(PreloadJobLoadEnd)

SpecDrain == InitDrain /\ [][NextDrain]_vars /\ FairDrain

\* ========================================================================
\* Claims
\* ========================================================================
Min(a, b) == IF a < b THEN a ELSE b

StateOf(e) == material_map[e.material].state

\* Positions of q whose material is Decoded now.
DecodedAt(q) == { i \in DOMAIN q : StateOf(q[i]) = "Decoded" }

\* How many Decoded entries stand before position i of q.
DecodedBefore(q, i) == Cardinality({ j \in DecodedAt(q) : j < i })

\* The first min(16, D) Decoded positions of q.
FirstDecoded(q) ==
    { i \in DecodedAt(q) : DecodedBefore(q, i) < MAX_UPLOADS_PER_TICK }

QueuedFuncs(q) == { q[i].func : i \in DOMAIN q }

IsTickStep == last'.name = "TickFrame" /\ textures_loaded

\* C1: one TickFrame call after discovery invokes exactly min(16, D) upload
\* closures, D the number of queued entries whose material is Decoded at the
\* call: those of the first min(16, D) Decoded entries, in queue order, each
\* once; exactly those entries leave the queue as applied.
C1_TickAppliesFirst16 ==
    [][IsTickStep =>
          \A q \in {async_uploads} :
          \A dec \in {DecodedAt(q)} :
          \A first \in {FirstDecoded(q)} :
          \A n \in {Min(MAX_UPLOADS_PER_TICK, Cardinality(dec))} :
             /\ Len(last'.applied) = n
             /\ Cardinality(first) = n
             /\ \A i \in first :
                    last'.applied[Cardinality({ j \in dec : j < i }) + 1]
                        = q[i].func
             /\ \A f \in DOMAIN funcs :
                    funcs'[f].invoked =
                        funcs[f].invoked
                        + (IF \E i \in first : q[i].func = f THEN 1 ELSE 0)
             /\ \A i \in dec :
                    (q[i].func \in QueuedFuncs(async_uploads')) <=> i \notin first
      ]_vars

\* C1 witness: a TickFrame call has used up its budget of 16 and left a
\* Decoded entry queued.
C1_Witness ==
    /\ last.name = "TickFrame"
    /\ Len(last.applied) = MAX_UPLOADS_PER_TICK
    /\ DecodedAt(async_uploads) # {}

\* C2 as stated: every entry whose material is Failed when TickFrame is
\* called is removed by that call, and its closure is not invoked.
C2_FailedAlwaysRemoved ==
    [][IsTickStep =>
          \A i \in DOMAIN async_uploads :
              StateOf(async_uploads[i]) = "Failed" =>
                  /\ async_uploads[i].func \notin QueuedFuncs(async_uploads')
                  /\ funcs'[async_uploads[i].func].invoked = 0
      ]_vars

\* C2 amended: an entry whose material is Failed when TickFrame is called is
\* removed by that call when fewer than 16 Decoded entries stand before it in
\* the queue, and stays queued otherwise; in both cases its closure is not
\* invoked, by that call or any other.
C2_FailedRemovedWithinBudget ==
    /\ [](\A f \in DOMAIN funcs :
              (funcs[f].queued
               /\ material_map[funcs[f].material].state = "Failed")
                  => funcs[f].invoked = 0)
    /\ [][IsTickStep =>
             \A i \in DOMAIN async_uploads :
                 StateOf(async_uploads[i]) = "Failed" =>
                     /\ (async_uploads[i].func \in QueuedFuncs(async_uploads'))
                            <=> DecodedBefore(async_uploads, i)
                                    >= MAX_UPLOADS_PER_TICK
                     /\ funcs'[async_uploads[i].func].invoked = 0
       ]_vars

\* C2 witness: a TickFrame call that also uploaded has dropped a Failed
\* entry, whose closure has not been invoked.
C2_Witness ==
    /\ last.name = "TickFrame"
    /\ last.applied # << >>
    /\ \E f \in DOMAIN funcs :
           /\ funcs[f].queued
           /\ material_map[funcs[f].material].state = "Failed"
           /\ f \notin QueuedFuncs(async_uploads)
           /\ funcs[f].invoked = 0

\* The pipeline as constructed, with asynchronous loading enabled and one
\* decodable file per material: the start of the specifications below, in
\* which no texture is decoded.
IdlePipeline ==
    /\ textures_loaded = FALSE
    /\ workers = FALSE
    /\ async_custom_loading = TRUE
    /\ disk = [m \in Materials |-> [ok |-> TRUE, size |-> 1024]]
    /\ material_map = << >>
    /\ async_uploads = << >>
    /\ requests = << >>
    /\ running = {}
    /\ preload = PreloadIdle
    /\ stop_run = FALSE
    /\ pc = "idle"
    /\ funcs = << >>
    /\ jobs_queued = [m \in Materials |-> 0]
    /\ last = Step("construct")

\* ------------------------------------------------------------------------
\* SpecDump: DumpTexture and the encode jobs, on a dump directory that is
\* empty or holds a file of an earlier session.
DumpCall(width, height, format, level) ==
    [width |-> width, height |-> height, format |-> format, level |-> level]

\* One surface, the surfaces that differ from it in one dimension, in the
\* pixel format or in the mip level, and surfaces of which a dimension is
\* zero or another number that is no power of two.
DumpCalls ==
    { DumpCall(1, 1, 0, 0), DumpCall(2, 1, 0, 0), DumpCall(1, 1, 1, 0),
      DumpCall(1, 1, 0, 1), DumpCall(0, 1, 0, 0), DumpCall(3, 1, 0, 0),
      DumpCall(1, 0, 0, 0), DumpCall(2, 3, 0, 0) }

DumpHashes == {1, 2}

InitDump ==
    /\ IdlePipeline
    /\ DefaultOptions
    /\ EmptyContainers
    /\ load_dir = PlainPack
    /\ dump_dir \in {EmptyDumpDir,
                     [EmptyDumpDir EXCEPT
                          !.files = {DumpName(1, 1, 1, 0, 0)}]}

NextDump ==
    \/ \E call \in DumpCalls, data_hash \in DumpHashes, created \in BOOLEAN :
           DumpTexture(call.width, call.height, call.format, call.level,
                       data_hash, created)
    \/ DumpTextureReturn
    \/ DumpJobStart
    \/ \E path \in encoding, written \in BOOLEAN : DumpJobFinish(path, written)

SpecDump == InitDump /\ [][NextDump]_vars

\* ------------------------------------------------------------------------
\* SpecPack: discovery and WriteConfig on a pack whose descriptor and files
\* the user may change at any time, for every value the options may have as
\* constructed.
Key(hash) == FormatHex(hash, 1)

\* A file name of its segments.
RECURSIVE JoinSegments(_)
JoinSegments(segments) ==
    IF Len(segments) = 1 THEN segments[1]
    ELSE segments[1] \o << "." >> \o JoinSegments(Tail(segments))

foo == << "f", "o", "o" >>

Texture(key, kind, paths) ==
    [key |-> key, value |-> [kind |-> kind, paths |-> paths]]

PackConfigs ==
    { NoConfig, EmptyConfig, MalformedConfig,
      JsonConfig([skip_mipmap |-> FALSE, flip_png_files |-> TRUE,
                  use_new_hash |-> TRUE],
                 << Texture(Key(1), "string", << << "a", ".", "p", "n", "g" >> >>),
                    Texture(Key(2), "array",
                            << << "a", ".", "p", "n", "g" >>,
                               << "d", "/", "b", "." >> \o dds,
                               << "e", "/", "b", "." >> \o dds,
                               << "c", "." >> \o ktx >>),
                    Texture(Key(2), "other", << >>) >>),
      JsonConfig([skip_mipmap |-> TRUE, flip_png_files |-> FALSE,
                  use_new_hash |-> TRUE],
                 << Texture(<< "z" >>, "string",
                            << << "a", ".", "p", "n", "g" >> >>) >>) }

\* Files that are rejected for each reason there is (four segments, an
\* unknown extension, a base name that is no pattern, DDS where it is
\* refused), followed by three files of one hash, two of them of one type.
MixedFiles ==
    << File(JoinSegments(<< foo, norm, norm, png >>)),
       File(JoinSegments(<< foo, << "j", "p", "g" >> >>)),
       File(JoinSegments(<< << "t", "e", "x", "1", "_", "1", "x", "1", "_",
                               "A", "B" >>, png >>)),
       File(JoinSegments(<< Tex1Name(1, 1, 1, 0, 1), dds >>)),
       File(JoinSegments(<< Tex1Name(1, 1, 2, 0, 1), png >>)),
       File(JoinSegments(<< Tex1Name(1, 1, 2, 0, 1), norm, png >>)),
       File(JoinSegments(<< Tex1Name(2, 1, 2, 0, 1), png >>)) >>

PackFiles ==
    { << >>,
      PlainPack.files,
      MixedFiles,
      << File(<< "a", ".", "p", "n", "g" >>),
         [virtualName |-> << "d" >>, isDirectory |-> TRUE],
         File(<< "b", "." >> \o dds),
         File(<< "c", "." >> \o ktx) >> }

PackDirs == [config : PackConfigs, files : PackFiles]

\* A pack.json an author left in the dump directory.
AuthoredConfig ==
    JsonConfig([skip_mipmap |-> TRUE, flip_png_files |-> TRUE,
                use_new_hash |-> FALSE],
               << Texture(Key(1), "string", << << "a", ".", "p", "n", "g" >> >>) >>)

InitPack ==
    /\ IdlePipeline
    /\ skip_mipmap \in BOOLEAN
    /\ flip_png_files \in BOOLEAN
    /\ use_new_hash \in BOOLEAN
    /\ refuse_dds \in BOOLEAN
    /\ EmptyContainers
    /\ load_dir \in PackDirs
    /\ dump_dir \in {EmptyDumpDir, [EmptyDumpDir EXCEPT !.config = AuthoredConfig]}

\* The user changes the pack on disk.
PackChanges ==
    /\ \E dir \in PackDirs :
           /\ dir # load_dir
           /\ load_dir' = dir
    /\ last' = Step("PackChanges")
    /\ UNCHANGED << pipevars, skip_mipmap, flip_png_files, use_new_hash,
                    refuse_dds, path_to_hash_map, custom_textures,
                    dumped_textures, dump_dir, encoding, dump_queued,
                    map_textures, dump_call >>

NextPack ==
    \/ FindCustomTextures
    \/ \E ok \in BOOLEAN : WriteConfig(ok)
    \/ PackChanges

SpecPack == InitPack /\ [][NextPack]_vars

\* ------------------------------------------------------------------------
\* SpecParse: the discovery of a pack that holds one file, for file names of
\* one, two, three and four segments, with and without an override entry,
\* DDS files allowed and refused.
ParseSizes == {1, 64}

ParseHashes == {1, 171, 48879}

ParseFormats == {0, 12}

HexPads == {1, 16}

\* The base names tex1_{W}x{H}_{H64}_{F}.
Tex1Names ==
    { Tex1Name(width, height, hash, format, pad) :
          width \in ParseSizes, height \in ParseSizes, hash \in ParseHashes,
          format \in ParseFormats, pad \in HexPads }

\* Other base names: no pattern at all, a pattern cut after the hash, a
\* name as DumpTexture writes it, a hash in lower case and one with 0x.
OtherNames ==
    { foo, norm,
      << "t", "e", "x", "1", "_", "1", "x", "1", "_", "A", "B" >>,
      Tex1Name(1, 1, 171, 0, 16) \o << "_", "m", "i", "p", "0" >>,
      << "t", "e", "x", "1", "_", "1", "x", "1", "_", "a", "b", "_", "0" >>,
      << "t", "e", "x", "1", "_", "1", "x", "1", "_", "0", "x", "A", "B",
         "_", "0" >> }

Extensions == {png, dds, ktx, << "j", "p", "g" >>}

MapTypes == {norm, << "s", "p", "e", "c" >>}

\* File names as their segments.
ParseSegments ==
    { << ext >> : ext \in {png, dds} }
        \cup { << base, ext >> :
                   base \in Tex1Names \cup OtherNames, ext \in Extensions }
        \cup { << base, type, ext >> :
                   base \in Tex1Names \cup OtherNames, type \in MapTypes,
                   ext \in Extensions }
        \cup { << foo, norm, norm, png >>,
               << Tex1Name(1, 1, 1, 0, 16), norm, norm, png >> }

\* The hash of every override entry: no file name tried encodes it.
OverrideHash == 12

\* A textures table that names files of each kind tried.
OverrideTable ==
    << Texture(Key(OverrideHash), "array",
               << png,
                  JoinSegments(<< foo, png >>),
                  << "d", "/" >> \o JoinSegments(<< foo, dds >>),
                  JoinSegments(<< foo, << "j", "p", "g" >> >>),
                  JoinSegments(<< norm, ktx >>),
                  JoinSegments(<< foo, norm, png >>),
                  JoinSegments(<< foo, << "s", "p", "e", "c" >>, dds >>),
                  JoinSegments(<< foo, norm, norm, png >>),
                  JoinSegments(<< Tex1Name(1, 1, 1, 0, 16), png >>),
                  JoinSegments(<< Tex1Name(1, 1, 1, 0, 16), norm, dds >>)
               >>) >>

ParseConfigs ==
    { NoConfig,
      JsonConfig([skip_mipmap |-> FALSE, flip_png_files |-> TRUE,
                  use_new_hash |-> TRUE], << >>),
      JsonConfig([skip_mipmap |-> FALSE, flip_png_files |-> TRUE,
                  use_new_hash |-> TRUE], OverrideTable),
      JsonConfig([skip_mipmap |-> FALSE, flip_png_files |-> TRUE,
                  use_new_hash |-> FALSE], OverrideTable) }

InitParse ==
    /\ IdlePipeline
    /\ DefaultOptions
    /\ EmptyContainers
    /\ \E config \in ParseConfigs, segments \in ParseSegments :
           load_dir = [config |-> config,
                       files |-> << File(JoinSegments(segments)) >>]
    /\ dump_dir = EmptyDumpDir

NextParse == FindCustomTextures

SpecParse == InitParse /\ [][NextParse]_vars

\* ------------------------------------------------------------------------
\* SpecCache: every operation of the manager on one pack: the operations of
\* Spec, GetMaterial for hashes of the pack and for one that is not, the
\* dump of one surface and WriteConfig.
UnknownHash == 0

CacheDump == DumpCall(1, 1, 0, 0)

InitCache ==
    /\ IdlePipeline
    /\ DefaultOptions
    /\ EmptyContainers
    /\ load_dir = PlainPack
    /\ dump_dir = EmptyDumpDir

NextCache ==
    \/ Next
    \/ \E data_hash \in Materials \cup {UnknownHash} : GetMaterial(data_hash)
    \/ DumpTexture(CacheDump.width, CacheDump.height, CacheDump.format,
                   CacheDump.level, 1, TRUE)
    \/ DumpTextureReturn
    \/ DumpJobStart
    \/ \E path \in encoding : DumpJobFinish(path, TRUE)
    \/ WriteConfig(TRUE)

SpecCache == InitCache /\ [][NextCache]_vars

\* ------------------------------------------------------------------------
\* SpecProgress: the preload pass on a pack of one file per material and on
\* a pack that also holds a second file of the first material and a file
\* that is rejected.
ProgressPack ==
    [config |-> NoConfig,
     files |-> << PlainPack.files[1],
                  File(JoinSegments(<< foo, << "j", "p", "g" >> >>)),
                  File(JoinSegments(<< Tex1Name(1, 1, 1, 0, 1), norm,
                                       png >>)) >>
                  \o Tail(PlainPack.files)]

InitProgress ==
    /\ IdlePipeline
    /\ DefaultOptions
    /\ EmptyContainers
    /\ load_dir \in {PlainPack, ProgressPack}
    /\ dump_dir = EmptyDumpDir

NextProgress == Next

SpecProgress == InitProgress /\ [][NextProgress]_vars

\* ------------------------------------------------------------------------
\* SpecBudget: the budget of the preload for values of the total physical
\* memory over the whole range of a u64: every limb is zero, one, the
\* greatest value or one of the two values around the middle.
LimbValues == {0, 1, (Limb \div 2) - 1, Limb \div 2, Limb - 1}

SysMems64 == [1..4 -> LimbValues]

InitBudget == InitCache

NextBudget == \E sys_mem \in SysMems64 : PreloadBudget(sys_mem)

SpecBudget == InitBudget /\ [][NextBudget]_vars

\* ------------------------------------------------------------------ Decode
\* A step that is a Decode call, and the closure it was given.
IsDecodeStep == last'.name = "Decode" /\ Len(funcs') = Len(funcs) + 1

NewFunc == funcs'[Len(funcs')]

\* C3 as stated: with asynchronous loading enabled, Decode on an Unloaded
\* material returns false without invoking the closure and leaves the
\* material Pending; the material is never Unloaded again and leaves Pending
\* only by its own decode job finishing.
C3_PendingUntilOwnJobCompletes ==
    [][/\ (IsDecodeStep /\ async_custom_loading
           /\ IsUnloaded(material_map[NewFunc.material]))
              => /\ last'.ret = FALSE
                 /\ NewFunc.invoked = 0
                 /\ material_map'[NewFunc.material].state = "Pending"
       /\ \A m \in DOMAIN material_map :
              /\ ~IsUnloaded(material_map[m]) => ~IsUnloaded(material_map'[m])
              /\ (material_map[m].state = "Pending"
                  /\ material_map'[m].state # "Pending")
                     => /\ last'.name = "DecodeJobFinish"
                        /\ m \in running
                        /\ m \notin running'
      ]_vars

\* C4: with asynchronous loading disabled, Decode loads the material in the
\* call, invokes the closure exactly once, returns what the closure returned,
\* appends nothing to the upload queue and enqueues no worker job.
C4_SyncDecode ==
    [][(IsDecodeStep /\ ~async_custom_loading) =>
          LET m == NewFunc.material IN
          /\ NewFunc.invoked = 1
          /\ last'.ret = last'.upload
          /\ \A f \in DOMAIN funcs : funcs'[f] = funcs[f]
          /\ material_map'[m].state \in {"Decoded", "Failed"}
          /\ disk[m].ok => material_map'[m] =
                               [state |-> "Decoded", size |-> disk[m].size]
          /\ async_uploads' = async_uploads
          /\ requests' = requests
          /\ running' = running
          /\ jobs_queued' = jobs_queued
      ]_vars

\* C4 witness: a synchronous Decode has returned true, the result of its
\* closure, with the material loaded.
C4_Witness ==
    /\ last.name = "Decode"
    /\ last.ret = TRUE
    /\ ~async_custom_loading
    /\ funcs # << >>
    /\ ~funcs[Len(funcs)].queued
    /\ funcs[Len(funcs)].invoked = 1
    /\ IsDecoded(material_map[funcs[Len(funcs)].material])

DecodeJobsQueued(m) ==
    Cardinality({ i \in DOMAIN requests : requests[i] = DecodeJob(m) })

\* C5: at most one decode job per Material is ever enqueued; a Decode call
\* on a Pending, Decoded or Failed Material enqueues none.
C5_AtMostOneDecodeJob ==
    /\ [](\A m \in Materials :
              /\ jobs_queued[m] <= 1
              /\ DecodeJobsQueued(m) + (IF m \in running THEN 1 ELSE 0) <= 1)
    /\ [][(IsDecodeStep /\ ~IsUnloaded(material_map[NewFunc.material]))
              => requests' = requests /\ jobs_queued' = jobs_queued]_vars

\* C5 witness: a material was given to Decode twice while loading was
\* asynchronous, and one decode job was enqueued for it.
C5_Witness ==
    \E m \in Materials :
        /\ jobs_queued[m] = 1
        /\ Cardinality({ f \in DOMAIN funcs :
                             funcs[f].material = m /\ funcs[f].queued }) >= 2

\* C6 as stated: no job other than a Material's own decode job loads it (to
\* write its state and size) while that decode job is queued or running; in
\* particular the preload job never does.
C6_DecodeJobSoleWriter ==
    \A m \in DOMAIN material_map :
        (preload.pc = "loading" /\ preload.it = m)
            => (m \notin running /\ DecodeJobsQueued(m) = 0)

\* C7: a Material's state only advances along Unloaded -> Pending ->
\* {Decoded, Failed}: no step moves it backward, Decoded and Failed are
\* terminal, and Pending is entered from Unloaded only.
C7_StateOnlyAdvances ==
    [][\A m \in DOMAIN material_map :
           LET s == material_map[m].state
               t == material_map'[m].state
           IN \/ s = t
              \/ s = "Unloaded" /\ t \in {"Pending", "Decoded", "Failed"}
              \/ s = "Pending" /\ t \in {"Decoded", "Failed"}
      ]_vars

\* C7 witness: a Failed material, loaded by its decode job, has since been
\* through a preload and a synchronous Decode call.
C7_Witness ==
    \E f \in DOMAIN funcs :
        /\ ~funcs[f].queued
        /\ jobs_queued[funcs[f].material] = 1
        /\ material_map[funcs[f].material].state = "Failed"

\* C8 as stated: a closure is never invoked while an entry enqueued before
\* it is still queued.
C8_StrictFifo ==
    [][\A b \in DOMAIN funcs :
           (funcs[b].queued /\ funcs'[b].invoked > funcs[b].invoked)
               => \A a \in 1..(b - 1) : a \notin QueuedFuncs(async_uploads')
      ]_vars

\* C8 amended: TickFrame invokes closures in the order they were enqueued, and
\* a closure is never invoked while an entry enqueued before it is still
\* queued, unless that entry's material is still Pending at that call.
C8_FifoExceptPending ==
    [][/\ \A b \in DOMAIN funcs :
              (funcs[b].queued /\ funcs'[b].invoked > funcs[b].invoked)
                  => \A a \in 1..(b - 1) :
                         a \in QueuedFuncs(async_uploads')
                             => material_map[funcs[a].material].state
                                    = "Pending"
       /\ \A i, j \in DOMAIN last'.applied :
              i < j => last'.applied[i] < last'.applied[j]
      ]_vars

\* C8 witness: a closure has been invoked while one enqueued before it is
\* still queued.
C8_Witness ==
    \E a, b \in DOMAIN funcs :
        /\ a < b
        /\ funcs[b].queued
        /\ funcs[b].invoked = 1
        /\ a \in QueuedFuncs(async_uploads)

\* ----------------------------------------------------------------- Preload
RECURSIVE SumOver(_, _)
SumOver(size, n) == IF n = 0 THEN 0 ELSE size[n] + SumOver(size, n - 1)

\* The decoded sizes of all materials of the pack.
TotalSize == SumOver([m \in Materials |-> disk[m].size], NumMaterials)

C10_PreloadDisablesAsync ==
    [][/\ last'.name = "PreloadReturn" => ~async_custom_loading'
       /\ ~async_custom_loading => ~async_custom_loading'
       /\ (IsDecodeStep /\ ~async_custom_loading)
              => /\ NewFunc.invoked = 1
                 /\ ~NewFunc.queued
                 /\ async_uploads' = async_uploads
      ]_vars

\* C10 witness: loading was asynchronous (a decode job was enqueued), a
\* preload has returned, and a later Decode call ran its closure in the call.
C10_Witness ==
    /\ last.name = "Decode"
    /\ ~async_custom_loading
    /\ \E m \in Materials : jobs_queued[m] = 1
    /\ ~funcs[Len(funcs)].queued
    /\ funcs[Len(funcs)].invoked = 1

\* C11 as stated: when a preload that stopped early returns, every material
\* its loop did not reach has exactly the state and size it had when the
\* preload was called.
C11_UnreachedAsBefore ==
    [][last'.name = "PreloadReturn"
           => \A m \in preload.it..NumMaterials :
                  material_map'[m] = preload.before[m]
      ]_vars

\* C11 amended: when a preload that stopped early returns, every material
\* its loop did not reach has the state and size it had when the preload was
\* called, unless its own decode job was pending then: that job has
\* completed by the return and the material is Decoded or Failed.  A later
\* Decode call on a material still Unloaded loads it in the call.
C11_UnreachedAsBeforeUnlessPending ==
    [][/\ last'.name = "PreloadReturn"
              => \A m \in preload.it..NumMaterials :
                     material_map'[m] =
                         IF preload.before[m].state = "Pending"
                         THEN Loaded(preload.before[m], disk[m])
                         ELSE preload.before[m]
       /\ (IsDecodeStep /\ ~async_custom_loading
               /\ IsUnloaded(material_map[NewFunc.material]))
              => material_map'[NewFunc.material]
                     = Loaded(NewMaterial, disk[NewFunc.material])
      ]_vars

\* C11 witness: a preload has returned with no Decode call made before it,
\* having loaded one material and left another one Unloaded.
C11_Witness ==
    /\ last.name = "PreloadReturn"
    /\ funcs = << >>
    /\ \E m \in Materials : IsDecoded(material_map[m])
    /\ \E m \in Materials : IsUnloaded(material_map[m])

\* ----------------------------------------------------------- failed decode
\* C20 as stated: no upload closure is invoked for a material whose decode
\* has failed, by TickFrame or by a synchronous Decode call, and a Decode
\* call that leaves its material Failed returns false (no replacement).
C20_FailedNeverUploaded ==
    [][/\ \A b \in DOMAIN funcs' :
              (IF b \in DOMAIN funcs
               THEN funcs'[b].invoked > funcs[b].invoked
               ELSE funcs'[b].invoked > 0)
                  => material_map'[funcs'[b].material].state # "Failed"
       /\ (IsDecodeStep /\ material_map'[NewFunc.material].state = "Failed")
              => ~last'.ret
      ]_vars

\* ------------------------------------------------------------------- dump
\* The encode jobs ever submitted for the hash h.
DumpJobsOf(h) == { i \in DOMAIN dump_queued : dump_queued[i].hash = h }

\* C12: in one session at most one encode job is ever submitted per
\* content hash, whatever the dimensions, the pixel format and the mip level
\* of the calls.
C12_OneEncodeJobPerHash ==
    \A h \in DumpHashes : Cardinality(DumpJobsOf(h)) <= 1

\* The path DumpTexture builds for the call recorded in a.
DumpNameOf(a) == DumpName(a.width, a.height, a.data_hash, a.format, a.level)

\* C12 witness: a call for a hash whose encode job was submitted under
\* another path (other dimensions, format or level), with power-of-two
\* dimensions and no file at its path, has submitted nothing.
C12_Witness ==
    /\ last.name = "DumpTexture"
    /\ last.args.created
    /\ last.args.width = 2
    /\ last.args.height = 1
    /\ DumpNameOf(last.args) \notin dump_dir.files
    /\ \E i \in DumpJobsOf(last.args.data_hash) :
           dump_queued[i].path # DumpNameOf(last.args)
    /\ \E h \in DumpHashes : DumpJobsOf(h) = {}

ExactPowerOfTwo(n) == \E k \in 0..30 : n = 2 ^ k

\* C13: a DumpTexture call whose width or height is no exact power of two
\* (zero included) submits no encode job, writes no file and leaves
\* dumped_textures as it is; a call with power-of-two dimensions for a hash
\* not in dumped_textures, no file at its path and the dump directory
\* created, submits the encode job of its path.
C13_NonPow2NotDumped ==
    [][last'.name = "DumpTexture" =>
          IF ExactPowerOfTwo(last'.args.width)
                 /\ ExactPowerOfTwo(last'.args.height)
          THEN (/\ last'.args.created
                /\ last'.args.data_hash \notin dumped_textures
                /\ DumpNameOf(last'.args) \notin dump_dir.files)
                   => /\ requests' =
                             Append(requests, DumpJob(DumpNameOf(last'.args)))
                      /\ dump_call' = {last'.args.data_hash}
          ELSE /\ requests' = requests
               /\ dump_queued' = dump_queued
               /\ dumped_textures' = dumped_textures
               /\ dump_dir' = dump_dir
               /\ encoding' = encoding
      ]_vars

\* C13 witness: a call with a zero dimension, for a hash not dumped so far
\* and with no file at its path, has returned and the hash is still not in
\* dumped_textures.
C13_Witness ==
    /\ last.name = "DumpTexture"
    /\ last.args.created
    /\ last.args.height = 0
    /\ last.args.data_hash \notin dumped_textures
    /\ DumpNameOf(last.args) \notin dump_dir.files
    /\ dumped_textures # {}

\* ------------------------------------------------------------ descriptor
\* The options WriteConfig would write now.
Options ==
    [skip_mipmap |-> skip_mipmap, flip_png_files |-> flip_png_files,
     use_new_hash |-> use_new_hash]

\* C14: a WriteConfig call that finds a pack.json in the dump directory
\* writes nothing: the descriptor a first call left is not modified by a
\* second one, whatever the options are by then.
C14_WriteConfigNeverOverwrites ==
    [][(last'.name = "WriteConfig" /\ dump_dir.config.file # "absent")
           => dump_dir' = dump_dir
      ]_vars

\* C14 witness: a WriteConfig call has returned with the dump directory
\* holding the descriptor an earlier call wrote (no textures table), whose
\* options differ from the options of now.
C14_Witness ==
    /\ last.name = "WriteConfig"
    /\ dump_dir.config.file = "json"
    /\ dump_dir.config.textures = << >>
    /\ dump_dir.config.options # Options

\* C15: once textures_loaded is set, a FindCustomTextures call changes
\* neither material_map, custom_textures, the options, path_to_hash_map nor
\* the worker pool, whatever the pack's directory holds by then.
C15_DiscoverOnce ==
    [][(last'.name = "FindCustomTextures" /\ textures_loaded)
           => UNCHANGED << textures_loaded, workers, material_map,
                           custom_textures, skip_mipmap, flip_png_files,
                           use_new_hash, refuse_dds, path_to_hash_map >>
      ]_vars

\* The files of a directory scan that are no directories.
ScannedFiles(files) == { i \in DOMAIN files : ~files[i].isDirectory }

\* C15 witness: a repeat call of FindCustomTextures has returned on a pack
\* whose files and descriptor are not those of the discovery pass: the
\* texture list and the options do not match them.
C15_Witness ==
    /\ last.name = "FindCustomTextures"
    /\ textures_loaded
    /\ last.parsed = << >>
    /\ Len(custom_textures) # Cardinality(ScannedFiles(load_dir.files))
    /\ load_dir.config.file = "json"
    /\ load_dir.config.options # Options

\* C19 as stated: when ReadConfig has returned, refuse_dds is true exactly
\* if no usable descriptor was found (no file, or a file of which nothing is
\* read) or skip_mipmap is true or use_new_hash is false.
C19_RefuseDdsDerived ==
    [][(last'.name = "FindCustomTextures" /\ ~textures_loaded
            /\ ~last'.thrown)
           => refuse_dds' = (\/ load_dir.config.file \in {"absent", "empty"}
                             \/ skip_mipmap'
                             \/ ~use_new_hash')
      ]_vars

\* ------------------------------------------------------------ file names
\* The file names built on a base name tex1_{W}x{H}_{H64}_{F}, with or
\* without a map type segment, with the hash and the extension they were
\* built from.
ValidFiles ==
    { [name |-> JoinSegments(<< Tex1Name(width, height, hash, format, pad) >>
                                 \o type \o << ext >>),
       hash |-> hash, ext |-> ext] :
          width \in ParseSizes, height \in ParseSizes, hash \in ParseHashes,
          format \in ParseFormats, pad \in HexPads,
          type \in {<< >>} \cup { << t >> : t \in MapTypes },
          ext \in {png, dds, ktx} }

\* The file names tried, each with its segments.
NamedSegments ==
    { [name |-> JoinSegments(segments), segments |-> segments] :
          segments \in ParseSegments }

\* The one file of the pack was accepted under the hash h.
AcceptedAs(h) ==
    /\ textures_loaded
    /\ Len(custom_textures) = 1
    /\ custom_textures[1].path = load_dir.files[1].virtualName
    /\ custom_textures[1].hash = h
    /\ DOMAIN material_map = {h}

\* C16: a file whose base name is tex1_{W}x{H}_{H64}_{F}, whose extension
\* is png, ktx or (DDS not refused) dds and which has no override entry is
\* accepted with the hash H64 and the file format of its extension, for
\* every W, H and F.
C16_PatternNamesAccepted ==
    textures_loaded =>
        \A v \in ValidFiles :
            (/\ load_dir.files[1].virtualName = v.name
             /\ v.name \notin DOMAIN path_to_hash_map
             /\ v.ext = dds => ~refuse_dds)
                => /\ AcceptedAs(v.hash)
                   /\ custom_textures[1].file_format =
                          (IF v.ext = png THEN "PNG"
                           ELSE IF v.ext = dds THEN "DDS" ELSE "KTX")

\* C16 witness: a DDS file with a map type segment, sizes and a format of
\* two digits and a hash written without padding has been accepted.
C16_Witness ==
    /\ AcceptedAs(48879)
    /\ custom_textures[1].file_format = "DDS"
    /\ custom_textures[1].path =
           JoinSegments(<< Tex1Name(64, 64, 48879, 12, 1), norm, dds >>)

\* C17: the texture of an accepted file is Normal if the file name has a
\* map type segment (the second of three segments) and that segment is
\* "norm"; it is Color if the name has no map type segment or another one.
C17_TypeFromSegment ==
    textures_loaded =>
        \A n \in NamedSegments :
            (/\ load_dir.files[1].virtualName = n.name
             /\ AcceptedAs(custom_textures[1].hash))
                => custom_textures[1].type =
                       (IF Len(n.segments) = 3 /\ n.segments[2] = norm
                        THEN "Normal" ELSE "Color")

\* C17 witness: a file with a map type segment other than "norm" has been
\* accepted as Color.
C17_Witness ==
    /\ AcceptedAs(171)
    /\ custom_textures[1].type = "Color"
    /\ custom_textures[1].path =
           JoinSegments(<< Tex1Name(1, 64, 171, 0, 16),
                           << "s", "p", "e", "c" >>, ktx >>)

\* C18 as stated: a file whose name has an override entry is accepted with
\* the hash of that entry.
C18_OverrideAccepted ==
    textures_loaded =>
        \A n \in NamedSegments :
            (/\ load_dir.files[1].virtualName = n.name
             /\ n.name \in DOMAIN path_to_hash_map)
                => AcceptedAs(path_to_hash_map[n.name])

\* C18 amended: a file whose name has an override entry, that has at most
\* three segments and whose extension is png, ktx or (DDS not refused) dds,
\* is accepted with the hash of that entry, whatever its base name is.
C18_OverrideBeforePattern ==
    textures_loaded =>
        \A n \in NamedSegments :
            (/\ load_dir.files[1].virtualName = n.name
             /\ n.name \in DOMAIN path_to_hash_map
             /\ Len(n.segments) <= 3
             /\ Last(n.segments)
                    \in {png, ktx} \cup (IF refuse_dds THEN {} ELSE {dds}))
                => AcceptedAs(path_to_hash_map[n.name])

\* C18 witness: a file whose base name encodes the hash 1 has been accepted
\* with the hash of its override entry.
C18_Witness ==
    /\ AcceptedAs(OverrideHash)
    /\ custom_textures[1].path =
           JoinSegments(<< Tex1Name(1, 1, 1, 0, 16), png >>)

\* ------------------------------------------------------------ descriptor
\* The entries of the textures table ReadConfig can apply: the key is a
\* hexadecimal number, the value a file name or a list of file names.
AppliableEntries(config) ==
    { i \in DOMAIN config.textures :
          /\ ScanInteger(config.textures[i].key, 1, 16).ok
          /\ config.textures[i].value.kind \in {"string", "array"} }

\* C21 as stated: a discovery pass over a pack whose pack.json is not JSON,
\* has an entry that cannot be applied or names one file twice completes
\* and sets textures_loaded, with the options of the descriptor applied and
\* every file name of every other entry in path_to_hash_map.
C21_ConfigErrorsNonFatal ==
    [][(/\ last'.name = "FindCustomTextures"
        /\ ~textures_loaded
        /\ load_dir.config.file \in {"malformed", "json"})
           => /\ textures_loaded'
              /\ \A i \in AppliableEntries(load_dir.config) :
                     \A j \in DOMAIN load_dir.config.textures[i].value.paths :
                         GetFilename(load_dir.config.textures[i].value.paths[j])
                             \in DOMAIN path_to_hash_map'
              /\ load_dir.config.file = "json"
                     => /\ skip_mipmap' = load_dir.config.options.skip_mipmap
                        /\ flip_png_files'
                               = load_dir.config.options.flip_png_files
                        /\ use_new_hash' = load_dir.config.options.use_new_hash
      ]_vars

\* ------------------------------------------------------------- discovery
\* The files of a scan that ParseFilename accepted (flags holds what it
\* returned for the files that are no directories, in their order).
RECURSIVE KeptFiles(_, _)
KeptFiles(files, flags) ==
    IF files = << >> THEN << >>
    ELSE IF Head(files).isDirectory THEN KeptFiles(Tail(files), flags)
    ELSE (IF Head(flags) THEN << Head(files) >> ELSE << >>)
             \o KeptFiles(Tail(files), Tail(flags))

\* The textures a cache holds for hash h under a map type, as values.
HeldTextures(textures, attached, h, type) ==
    { textures[i] : i \in attached[h][type] }

\* C22: a file ParseFilename rejects gets no Material and its texture is
\* attached to none, and the Materials and their textures after the scan
\* are those of a scan of the same directory without the rejected files.
C22_RejectedFilesLeaveNoTrace ==
    [][(last'.name = "FindCustomTextures" /\ ~textures_loaded
            /\ ~last'.thrown)
           => /\ \A i \in DOMAIN last'.parsed :
                     ~last'.parsed[i]
                         => \A h \in DOMAIN map_textures' :
                                i \notin map_textures'[h]["Color"]
                                             \cup map_textures'[h]["Normal"]
              /\ \E kept \in ParseFiles(KeptFiles(load_dir.files, last'.parsed),
                                        refuse_dds', path_to_hash_map') :
                     /\ \A i \in DOMAIN kept : kept[i].ok
                     /\ DOMAIN material_map'
                            = { kept[i].texture.hash : i \in DOMAIN kept }
                     /\ \A h \in DOMAIN material_map' :
                            /\ material_map'[h] = NewMaterial
                            /\ \A type \in {"Color", "Normal"} :
                                   HeldTextures(custom_textures',
                                                map_textures', h, type)
                                       = HeldTextures(
                                             [i \in DOMAIN kept |->
                                                 kept[i].texture],
                                             AddMapTextures(<< >>, 0, kept),
                                             h, type)
      ]_vars

\* C22 witness: a scan has rejected four files and accepted the files after
\* them, which have their Material.
C22_Witness ==
    /\ last.name = "FindCustomTextures"
    /\ Len(last.parsed) > 4
    /\ \A i \in 1..4 : ~last.parsed[i]
    /\ \A i \in 5..Len(last.parsed) : last.parsed[i]
    /\ material_map # << >>

\* The Materials that hold the texture at index i of custom_textures.
Holders(attached, i) ==
    { h \in DOMAIN attached :
          i \in attached[h]["Color"] \cup attached[h]["Normal"] }

\* C23: when the scan has returned, the texture of every accepted file is
\* held by the Material under the file's hash, under the file's map type,
\* and by no other Material, and material_map has the hashes of the
\* accepted files as its keys and no other key.
C23_OneMaterialPerHash ==
    [][(last'.name = "FindCustomTextures" /\ ~textures_loaded
            /\ ~last'.thrown)
           => LET base == Len(custom_textures)
                  accepted == { base + i :
                                    i \in { j \in DOMAIN last'.parsed :
                                                last'.parsed[j] } }
              IN  /\ DOMAIN map_textures' = DOMAIN material_map'
                  /\ \A t \in accepted :
                         /\ custom_textures'[t].hash \in DOMAIN material_map'
                         /\ Holders(map_textures', t)
                                = {custom_textures'[t].hash}
                         /\ t \in map_textures'[custom_textures'[t].hash]
                                                [custom_textures'[t].type]
                  /\ DOMAIN material_map'
                         = { custom_textures'[t].hash : t \in accepted }
      ]_vars

\* C23 witness: the scan has returned and one Material holds two color
\* textures and a normal map, the textures of three files of one hash.
C23_Witness ==
    /\ last.name = "FindCustomTextures"
    /\ textures_loaded
    /\ \E h \in DOMAIN material_map :
           /\ Cardinality(map_textures[h]["Color"]) = 2
           /\ Cardinality(map_textures[h]["Normal"]) = 1
           /\ \A t \in map_textures[h]["Color"] \cup map_textures[h]["Normal"] :
                  custom_textures[t].hash = h

\* ----------------------------------------------------------------- Preload
\* C24: the preload job enters the load of a material only from the two
\* exit tests, with stop_run false and a sum not greater than the budget;
\* at the tests before material k the sum is that of the sizes of materials
\* 1..k-1, the job stops there, loading nothing more, exactly if the sum is
\* greater than the budget or stop_run is set, and otherwise goes on with
\* material k; after a load it is back at the tests, before material k+1.
C24_ExitTestsBeforeEachMaterial ==
    [][/\ (preload'.pc = "loading" /\ preload.pc # "loading")
              => /\ last'.name = "PreloadJobCheck"
                 /\ ~stop_run
                 /\ preload.size_sum <= preload.max_mem
                 /\ preload'.it = preload.it
       /\ (last'.name = "PreloadJobCheck" /\ preload.it <= NumMaterials)
              => /\ preload.size_sum =
                        SumOver([m \in Materials |-> material_map[m].size],
                                preload.it - 1)
                 /\ preload'.pc = "done"
                        <=> (preload.size_sum > preload.max_mem \/ stop_run)
                 /\ preload'.pc = "done"
                        => /\ preload'.it = preload.it
                           /\ preload'.size_sum = preload.size_sum
                           /\ material_map' = material_map
                           /\ ~last'.thrown
                 /\ preload'.pc # "done"
                        => \/ preload'.pc = "loading"
                           \/ /\ IsDecoded(material_map[preload.it])
                              /\ preload'.pc = "check"
                              /\ preload'.it = preload.it + 1
       /\ last'.name = "PreloadJobLoadEnd"
              => /\ preload'.pc = "check"
                 /\ preload'.it = preload.it + 1
                 /\ \A m \in Materials \ {preload.it} :
                        material_map'[m] = material_map[m]
      ]_vars

\* C24 witness: the sum of the sizes loaded so far is equal to the budget,
\* which is not zero, and the job has gone on to load the next material.
C24_Witness ==
    /\ preload.pc = "loading"
    /\ preload.it > 1
    /\ preload.max_mem > 0
    /\ preload.size_sum = preload.max_mem
    /\ ~stop_run

\* The caller waits in PreloadTextures, stop_run is set and the preload job
\* has neither loaded a material nor is it loading one.
StoppedBeforeFirst ==
    /\ pc = "WaitForRequests"
    /\ stop_run
    /\ preload.pc # "loading"
    /\ preload.it = 1
    /\ preload.preloaded = 0
    /\ preload.size_sum = 0

\* C25: while stop_run is set the preload job enters no load, and from the
\* exit tests it can only stop, at the material it was at; a load that is
\* under way is not interrupted.  If stop_run is set when PreloadTextures is
\* called, then until the call returns the job has loaded no material and
\* made no callback (preloaded is 0), and the only writer of a material is
\* a decode job queued before.
C25_StopRunChecked ==
    [][/\ (stop_run /\ preload'.pc = "loading")
              => /\ preload.pc = "loading"
                 /\ preload' = preload
       /\ (stop_run /\ preload.pc = "check" /\ preload' # preload)
              => /\ preload'.pc = "done"
                 /\ preload'.it = preload.it
                 /\ preload'.preloaded = preload.preloaded
       /\ (preload.pc = "loading" /\ preload' # preload)
              => /\ last'.name = "PreloadJobLoadEnd"
                 /\ material_map'[preload.it]
                        = Loaded(material_map[preload.it], disk[preload.it])
       /\ (last'.name = "PreloadTextures" /\ stop_run')
              => StoppedBeforeFirst'
       /\ StoppedBeforeFirst
              => /\ StoppedBeforeFirst' \/ last'.name = "PreloadReturn"
                 /\ material_map' # material_map
                        => last'.name = "DecodeJobFinish"
      ]_vars

\* C25 witness: stop_run was set while the first material was loading: the
\* load has completed, the job has stopped before the second material,
\* which is Unloaded.
C25_Witness ==
    /\ pc = "WaitForRequests"
    /\ stop_run
    /\ preload.pc = "done"
    /\ preload.it = 2
    /\ preload.preloaded = 1
    /\ ~IsUnloaded(material_map[1])
    /\ IsUnloaded(material_map[2])
    /\ preload.size_sum <= preload.max_mem

\* The steps of the preload job on its worker.
IsPreloadJobStep ==
    last'.name \in {"PreloadJobStart", "PreloadJobCheck", "PreloadJobLoadEnd"}

\* C26: PreloadTextures returns only when its job has left the loop and no
\* job is queued or running; every step of the preload job, and every
\* change of its iterator, sum and count, is taken while the caller waits
\* in PreloadTextures; outside the call no preload job is queued.
C26_PreloadBlocks ==
    [][/\ last'.name = "PreloadReturn"
              => /\ preload.pc = "done"
                 /\ requests = << >>
                 /\ running = {}
                 /\ ~PreloadRunning'
       /\ IsPreloadJobStep => (pc = "WaitForRequests" /\ pc' = pc)
       /\ (pc = "idle" /\ pc' = "idle")
              => /\ preload' = preload
                 /\ ~PreloadRunning
                 /\ \A i \in DOMAIN requests' : requests'[i] # PreloadJob
      ]_vars

\* C26 witness: PreloadTextures has returned, with no Decode call made
\* before it: its job has loaded every material of the pack.
C26_Witness ==
    /\ last.name = "PreloadReturn"
    /\ pc = "idle"
    /\ funcs = << >>
    /\ material_map # << >>
    /\ \A m \in DOMAIN material_map : ~IsUnloaded(material_map[m])
    /\ preload = PreloadIdle

\* ------------------------------------------------------------------ Decode
\* The entries of async_uploads for material m.
EntriesOf(q, m) == { i \in DOMAIN q : q[i].material = m }

\* C27: a Decode call made with async_custom_loading set returns false,
\* invokes no closure and leaves async_uploads as it was with one entry
\* more at its back, the entry of the call's material and closure, whatever
\* the state of the material; so the material has one entry more than
\* before.
C27_AsyncDecodeAppendsOne ==
    [][(IsDecodeStep /\ async_custom_loading)
           => /\ ~last'.ret
              /\ ~last'.upload
              /\ NewFunc.invoked = 0
              /\ \A f \in DOMAIN funcs : funcs'[f].invoked = funcs[f].invoked
              /\ async_uploads' =
                     Append(async_uploads,
                            [material |-> NewFunc.material,
                             func |-> Len(funcs')])
              /\ Cardinality(EntriesOf(async_uploads', NewFunc.material))
                     = Cardinality(EntriesOf(async_uploads,
                                             NewFunc.material)) + 1
      ]_vars

\* C27 witness: a Decode call was made for a material that was Decoded at
\* the call: async_uploads holds two entries of the material, no closure
\* was invoked.
C27_Witness ==
    /\ last.name = "Decode"
    /\ async_custom_loading
    /\ Len(async_uploads) = 2
    /\ async_uploads[1].material = async_uploads[2].material
    /\ IsDecoded(material_map[async_uploads[2].material])
    /\ \A f \in DOMAIN funcs : funcs[f].invoked = 0

\* --------------------------------------------------------------- TickFrame
\* C28: a TickFrame call made while textures_loaded is unset invokes no
\* closure and changes neither async_uploads nor any Material (no Material
\* exists then, so async_uploads is empty); it is a no-op only until then:
\* a call made with the flag set applies a Decoded entry that is queued.
C28_TickNoOpBeforeDiscovery ==
    [][/\ (last'.name = "TickFrame" /\ ~textures_loaded)
              => /\ last'.applied = << >>
                 /\ UNCHANGED << async_uploads, funcs, material_map,
                                 map_textures, requests, textures_loaded >>
       /\ ~textures_loaded
              => (material_map = << >> /\ async_uploads = << >>)
       /\ (IsTickStep /\ DecodedAt(async_uploads) # {})
              => /\ last'.applied # << >>
                 /\ Len(async_uploads') < Len(async_uploads)
      ]_vars

\* C28 witness: TickFrame has been called on a manager whose discovery pass
\* has not completed.
C28_Witness ==
    /\ last.name = "TickFrame"
    /\ ~textures_loaded
    /\ last.applied = << >>
    /\ async_uploads = << >>

\* Whether s is t with some of its elements taken out.
RECURSIVE IsSubsequence(_, _)
IsSubsequence(s, t) ==
    IF s = << >> THEN TRUE
    ELSE IF t = << >> THEN FALSE
    ELSE IF Head(s) = Head(t) THEN IsSubsequence(Tail(s), Tail(t))
    ELSE IsSubsequence(s, Tail(t))

\* C29: a TickFrame call leaves every entry whose material is Pending in
\* async_uploads and does not invoke its closure; the entries that stay
\* are in the order they had, none is added; and Pending entries use up
\* nothing of the 16 uploads: a Decoded entry with fewer than 16 Decoded
\* entries before it is applied however many Pending entries stand before
\* it.
C29_PendingLeftInPlace ==
    [][IsTickStep =>
          /\ \A i \in DOMAIN async_uploads :
                 StateOf(async_uploads[i]) = "Pending"
                     => /\ async_uploads[i].func
                               \in QueuedFuncs(async_uploads')
                        /\ funcs'[async_uploads[i].func].invoked
                               = funcs[async_uploads[i].func].invoked
          /\ IsSubsequence(async_uploads', async_uploads)
          /\ \A i \in DOMAIN async_uploads :
                 (/\ StateOf(async_uploads[i]) = "Decoded"
                  /\ DecodedBefore(async_uploads, i) < MAX_UPLOADS_PER_TICK)
                     => \E k \in DOMAIN last'.applied :
                            last'.applied[k] = async_uploads[i].func
      ]_vars

\* C29 witness: a TickFrame call has made its 16 uploads from entries that
\* stood behind a Pending entry, which is still the first of the queue.
C29_Witness ==
    /\ last.name = "TickFrame"
    /\ Len(last.applied) = MAX_UPLOADS_PER_TICK
    /\ async_uploads # << >>
    /\ StateOf(async_uploads[1]) = "Pending"
    /\ \A k \in DOMAIN last.applied : async_uploads[1].func < last.applied[k]

\* ------------------------------------------------------------ material_map
\* C30: no step takes a key out of material_map, and only the discovery
\* pass adds one: GetMaterial (which returns the Material exactly for the
\* hashes that are keys), Decode, TickFrame, PreloadTextures and its job,
\* DumpTexture and its job and WriteConfig leave the set of keys as it is,
\* and so does FindCustomTextures once textures_loaded is set.
C30_KeysWrittenByDiscoveryOnly ==
    [][/\ DOMAIN material_map \subseteq DOMAIN material_map'
       /\ DOMAIN material_map' # DOMAIN material_map
              => (last'.name = "FindCustomTextures" /\ ~textures_loaded)
       /\ last'.name = "GetMaterial"
              => /\ last'.ret = (last'.args.data_hash \in DOMAIN material_map)
                 /\ material_map' = material_map
      ]_vars

\* C30 witness: after discovery, a Decode call, a preload that has returned,
\* a dump and WriteConfig, GetMaterial has been called for a hash that is no
\* key and has returned none; the keys are those of the pack.
C30_Witness ==
    /\ last.name = "GetMaterial"
    /\ ~last.ret
    /\ last.args.data_hash = UnknownHash
    /\ textures_loaded
    /\ DOMAIN material_map = Materials
    /\ funcs # << >>
    /\ ~async_custom_loading
    /\ dumped_textures # {}
    /\ dump_dir.config.file = "json"

\* ------------------------------------------------------------ descriptor
\* The file names of the textures table with the hash of their entry, in
\* the order ReadConfig meets them.
RECURSIVE OverridePairs(_)
OverridePairs(textures) ==
    IF textures = << >> THEN << >>
    ELSE LET entry == Head(textures) IN
         (IF entry.value.kind \in {"string", "array"}
          THEN [j \in DOMAIN entry.value.paths |->
                   [name |-> GetFilename(entry.value.paths[j]),
                    hash |-> ScanInteger(entry.key, 1, 16).value]]
          ELSE << >>)
             \o OverridePairs(Tail(textures))

\* C31: when ReadConfig has read a descriptor, every bare file name the
\* textures table names is in path_to_hash_map, with the hash it had
\* before if it had one and otherwise the hash of the first entry that
\* names it; a later entry for the name changes nothing, and the names
\* after it in the same entry are inserted.
C31_FirstWriterWins ==
    [][(/\ last'.name = "FindCustomTextures"
        /\ ~textures_loaded
        /\ ~last'.thrown
        /\ load_dir.config.file = "json")
           => \A pairs \in {OverridePairs(load_dir.config.textures)} :
                  /\ DOMAIN path_to_hash_map'
                         = DOMAIN path_to_hash_map
                               \cup { pairs[i].name : i \in DOMAIN pairs }
                  /\ \A f \in DOMAIN path_to_hash_map :
                         path_to_hash_map'[f] = path_to_hash_map[f]
                  /\ \A i \in DOMAIN pairs :
                         (/\ pairs[i].name \notin DOMAIN path_to_hash_map
                          /\ \A j \in 1..(i - 1) :
                                 pairs[j].name # pairs[i].name)
                             => path_to_hash_map'[pairs[i].name]
                                    = pairs[i].hash
      ]_vars

\* C31 witness: ReadConfig has read a table that names a.png under hash 1
\* and later under hash 2, and b.dds twice under hash 2, with c.ktx after
\* them in the same entry: a.png has hash 1 and c.ktx is in the table.
C31_Witness ==
    /\ last.name = "FindCustomTextures"
    /\ textures_loaded
    /\ \E pairs \in {OverridePairs(load_dir.config.textures)} :
           \E i, j, k, l \in DOMAIN pairs :
               /\ i < j
               /\ pairs[i].name = pairs[j].name
               /\ pairs[i].hash # pairs[j].hash
               /\ path_to_hash_map[pairs[i].name] = pairs[i].hash
               /\ j < k
               /\ k < l
               /\ pairs[k].name # pairs[j].name
               /\ pairs[k].name = pairs[l].name
               /\ pairs[k].hash = pairs[l].hash
               /\ \E n \in DOMAIN pairs :
                      /\ l < n
                      /\ pairs[n].name \in DOMAIN path_to_hash_map
                      /\ \A o \in 1..(n - 1) : pairs[o].name # pairs[n].name

\* ------------------------------------------------------------ file names
\* The textures Materials hold.
AttachedTextures(attached) ==
    UNION { attached[h]["Color"] \cup attached[h]["Normal"] :
                h \in DOMAIN attached }

\* The files of a scan that are no directories, in their order.
RECURSIVE ScannedNames(_)
ScannedNames(files) ==
    IF files = << >> THEN << >>
    ELSE (IF Head(files).isDirectory THEN << >>
          ELSE << Head(files).virtualName >>)
             \o ScannedNames(Tail(files))

\* C32: while refuse_dds is set no Material holds a DDS texture; a scan
\* rejects every file of more than three segments, of an unknown extension
\* or, with refuse_dds set, of the extension dds, whether or not
\* path_to_hash_map has an entry for it, and leaves its texture without
\* hash and path.
C32_RefusedBeforeOverride ==
    [][/\ (refuse_dds' /\ textures_loaded')
              => \A t \in AttachedTextures(map_textures') :
                     custom_textures'[t].file_format # "DDS"
       /\ (last'.name = "FindCustomTextures" /\ ~textures_loaded
               /\ ~last'.thrown)
              => \A names \in {ScannedNames(load_dir.files)} :
                 \A i \in DOMAIN names :
                 \A parts \in {SplitString(names[i], ".")} :
                     (\/ Len(parts) > 3
                      \/ MakeFileFormat(Last(parts)) = "None"
                      \/ (MakeFileFormat(Last(parts)) = "DDS"
                              /\ refuse_dds'))
                         => /\ ~last'.parsed[i]
                            /\ custom_textures'[Len(custom_textures) + i]
                                   = NewTexture
                            /\ (Len(custom_textures) + i)
                                   \notin AttachedTextures(map_textures')
      ]_vars

\* C32 witness: with refuse_dds set, a scan has rejected a DDS file for
\* which path_to_hash_map has an entry.
C32_Witness ==
    /\ last.name = "FindCustomTextures"
    /\ textures_loaded
    /\ refuse_dds
    /\ last.parsed = << FALSE >>
    /\ load_dir.files[1].virtualName \in DOMAIN path_to_hash_map
    /\ Len(SplitString(load_dir.files[1].virtualName, ".")) <= 3
    /\ MakeFileFormat(Last(SplitString(load_dir.files[1].virtualName, ".")))
           = "DDS"
    /\ material_map = << >>

\* ------------------------------------------------------------------- dump
\* C33 as stated: when an encode job finishes, the hash it was queued for
\* is in dumped_textures, and so it is when DumpTexture returns.
C33_MarkedBeforeJobEnds ==
    [][/\ last'.name = "DumpJobFinish"
              => \A i \in DOMAIN dump_queued :
                     dump_queued[i].path \in encoding \ encoding'
                         => dump_queued[i].hash \in dumped_textures'
       /\ last'.name = "DumpTextureReturn"
              => dump_call \subseteq dumped_textures'
      ]_vars

\* ----------------------------------------------------- the budget in bytes
\* a + b and the carry out of the most significant limb.
RECURSIVE Carry64(_, _, _)
Carry64(a, b, i) ==
    IF i > 4 THEN 0
    ELSE IF a[i] + b[i] + Carry64(a, b, i + 1) >= Limb THEN 1 ELSE 0

Add64(a, b) ==
    [i \in 1..4 |-> (a[i] + b[i] + Carry64(a, b, i + 1)) % Limb]

\* n MiB in bytes, for n up to 4096.
FromMiB(n) == << 0, (n * 16) \div Limb, (n * 16) % Limb, 0 >>

\* C34: for a total below 4 GiB (total / 2 < 2 GiB) the budget b is
\* total / 2: b + b is total or total - 1; otherwise b is total - 2 GiB:
\* the subtraction takes no borrow out of the 64 bits and b + 2 GiB is total
\* without carry.  In both cases total / 2 <= b <= total.  The budget in
\* MiB of the pipeline's model is this budget.
C34_BudgetArithmetic ==
    last.name = "PreloadBudget" =>
        \A total \in {last.args.sys_mem} :
        \A b \in {last.args.max_mem} :
            /\ IF total[1] = 0 /\ total[2] = 0
               THEN /\ Carry64(b, b, 1) = 0
                    /\ Add64(b, b) = [total EXCEPT ![4] = @ - (@ % 2)]
               ELSE /\ Borrow64(total, recommended_min_mem_u64, 1) = 0
                    /\ Carry64(b, recommended_min_mem_u64, 1) = 0
                    /\ Add64(b, recommended_min_mem_u64) = total
            /\ ~Less64(total, b)
            /\ ~Less64(b, Half64(total))
            /\ \A n \in SysMems :
                   total = FromMiB(n) => b = FromMiB(MaxMem(n))

\* C34 witness: the budget of the greatest total, 2^64 - 1, has been
\* computed: it is 2^64 - 1 - 2^31.
C34_Witness ==
    /\ last.name = "PreloadBudget"
    /\ last.args.sys_mem = [i \in 1..4 |-> Limb - 1]
    /\ last.args.max_mem = << Limb - 1, Limb - 1, (Limb \div 2) - 1, Limb - 1 >>

\* ------------------------------------------------------------- the drain
\* C35: under fair scheduling every entry of async_uploads is eventually
\* removed from it: whenever closure f is queued, at some later moment it
\* is queued no more.
C35_EveryEntryLeaves ==
    \A f \in 1..DrainBacklog :
        (f \in QueuedFuncs(async_uploads))
            ~> (f \notin QueuedFuncs(async_uploads))

\* C35 witness: the preload pass has disabled asynchronous loading and a
\* TickFrame call has applied the last entry of a backlog longer than one
\* call uploads.
C35_Witness ==
    /\ ~async_custom_loading
    /\ Len(funcs) = DrainBacklog
    /\ async_uploads = << >>
    /\ last.name = "TickFrame"
    /\ last.applied = << DrainBacklog >>

\* ------------------------------------------------- closures invoked once
\* C36: no closure is ever invoked twice.  A synchronous Decode call
\* invokes its closure in the call, once, and queues nothing; an
\* asynchronous one invokes nothing; a TickFrame call invokes each closure
\* it applies once, only closures that were queued and never invoked, whose
\* material is Decoded at that moment, and their entries are gone after the
\* call; no other step invokes a closure.
C36_InvokedAtMostOnce ==
    [][/\ \A f \in DOMAIN funcs' : funcs'[f].invoked <= 1
       /\ \A f \in DOMAIN funcs : funcs'[f].material = funcs[f].material
       /\ IF last'.name = "Decode"
          THEN /\ Len(funcs') = Len(funcs) + 1
               /\ \A f \in DOMAIN funcs : funcs'[f] = funcs[f]
               /\ IF async_custom_loading
                  THEN /\ funcs'[Len(funcs')].invoked = 0
                       /\ Len(funcs') \in QueuedFuncs(async_uploads')
                  ELSE /\ funcs'[Len(funcs')].invoked = 1
                       /\ async_uploads' = async_uploads
          ELSE IF last'.name = "TickFrame"
          THEN /\ Len(last'.applied) = Cardinality(Range(last'.applied))
               /\ \A f \in DOMAIN funcs :
                      IF f \in Range(last'.applied)
                      THEN /\ f \in QueuedFuncs(async_uploads)
                           /\ f \notin QueuedFuncs(async_uploads')
                           /\ IsDecoded(material_map[funcs[f].material])
                           /\ funcs[f].invoked = 0
                           /\ funcs'[f].invoked = 1
                      ELSE funcs'[f] = funcs[f]
          ELSE funcs' = funcs]_vars

\* C36 witness: a TickFrame call has applied the closure of an asynchronous
\* Decode call after a later, synchronous call invoked its own.
C36_Witness ==
    /\ last.name = "TickFrame"
    /\ last.applied = << 1 >>
    /\ Len(funcs) = 2
    /\ funcs[1].queued /\ funcs[1].invoked = 1
    /\ ~funcs[2].queued /\ funcs[2].invoked = 1

\* -------------------------------------------- the segment the scan parses
\* C37: in every scan, a file that reaches the tex1 parsing step (at most
\* three segments, a known extension that is not refused, no entry in
\* path_to_hash_map) still has a segment once the extension and the map
\* type are removed, and a file whose name is an extension and nothing else
\* is rejected.
C37_PatternSegmentExists ==
    [][(last'.name = "FindCustomTextures" /\ ~textures_loaded
            /\ ~last'.thrown)
           => \A names \in {ScannedNames(load_dir.files)} :
              \A i \in DOMAIN names :
              \A parts \in {SplitString(names[i], ".")} :
              \A rest \in {PopBack(parts)} :
                  (/\ Len(parts) <= 3
                   /\ MakeFileFormat(Last(parts)) # "None"
                   /\ ~(MakeFileFormat(Last(parts)) = "DDS" /\ refuse_dds')
                   /\ names[i] \notin DOMAIN path_to_hash_map')
                      => /\ (IF Len(rest) > 1 THEN PopBack(rest) ELSE rest)
                                # << >>
                         /\ Len(parts) = 1 => ~last'.parsed[i]
      ]_vars

\* ------------------------------------------------- the progress callback
\* A step of the preload job in which one loop iteration ends.
IterationEnds ==
    /\ last'.name \in {"PreloadJobCheck", "PreloadJobLoadEnd"}
    /\ preload'.it = preload.it + 1

\* C38: the preload job calls the callback in the steps that end a loop
\* iteration and in no other, once; the n-th call of a pass has completed =
\* n - 1 (the materials visited before it); total is the number of files
\* the scan enumerated, rejected ones included, and completed < total.
C38_ProgressCounts ==
    [][/\ IterationEnds <=> DOMAIN last'.args = {"completed", "total"}
       /\ IterationEnds
              => /\ last'.args.completed = preload.it - 1
                 /\ last'.args.total = Len(ScannedNames(load_dir.files))
                 /\ last'.args.completed < last'.args.total
                 /\ preload.it <= Cardinality(DOMAIN material_map)
      ]_vars

\* C38 witness: on the pack of one file per material the callback has been
\* called for the last material: completed is total - 1.
C38_Witness ==
    /\ last.name = "PreloadJobLoadEnd"
    /\ load_dir = PlainPack
    /\ last.args.completed = NumMaterials - 1
    /\ last.args.total = NumMaterials

====
